---- MODULE Spec2Model ----
(***************************************************************************)
(* A model of the SKLL data readers (skll/data/readers.py): numeric        *)
(* coercion (safe_float), reader dispatch (Reader.for_path) and            *)
(* Reader.read with its two ingestion strategies.                          *)
(*                                                                         *)
(* Text is a sequence of one-character strings, so that parsing and        *)
(* formatting are computed and not assumed.  A Python value is a record    *)
(* [k, s, n, e]: k names the type ("str", "int", "float", "none"), s is    *)
(* the text of a str, and a number is n * 10^(-e) (e = 0 for an int; a     *)
(* float is kept normalised, so equal floats are equal records).           *)
(***************************************************************************)
EXTENDS Integers, Sequences, FiniteSets, TLC

VARIABLES
    sf_pc, sf_text, sf_dict, sf_out, sf_log,    \* one call of safe_float
    pc,          \* where the caller of for_path / read stands
    arg,         \* the path_or_list argument of for_path
    kwargs,      \* the reader options passed to for_path
    reader,      \* the Reader object, once constructed
    error,       \* the exception that ended the call, if any
    file,        \* what the source holds, once read has opened it
    gen,         \* the locals of the running _sub_read generator
    ids,         \* the identifiers collected so far
    labels,      \* the labels collected so far
    features,    \* the feature mappings of a table-oriented read
    ex_num,      \* ex_num of _sub_read_rows' first loop
    total,       \* total of _sub_read_rows
    matrix,      \* the rows the vectorizer has produced, one per mapping
    stderr,      \* what has been written to stderr
    log,         \* the number of warnings logged
    result,      \* the FeatureSet read returned
    source,      \* the delimited text file a CSV/TSV reader is given
    pandas_kwargs,  \* the caller's mapping of pandas options (one object)
    _sep,        \* self._sep of the CSV/TSV reader
    _engine,     \* self._engine of the CSV/TSV reader
    first,       \* what the first of two reads gave
    round,       \* which of the two reads is under way
    read_csv_kwargs,  \* the keyword arguments of the ARFF reader's last pd.read_csv
    loggers,     \* logging's registry: the handlers of the logger of each name
    closed,      \* the handlers that have been closed
    made,        \* the number of file handlers created so far
    showwarning, \* the logger warnings.showwarning sends warnings to
    lg_call      \* the last call of a logutils function that returned

sf_vars == <<sf_pc, sf_text, sf_dict, sf_out, sf_log>>

dispatch_vars == <<pc, arg, kwargs, reader, error>>

read_vars == <<file, gen, ids, labels, features, ex_num, total, matrix, stderr, log, result>>

options_vars == <<source, pandas_kwargs, _sep, _engine, first, round, read_csv_kwargs>>

logging_vars == <<loggers, closed, made, showwarning, lg_call>>

vars ==
    <<sf_pc, sf_text, sf_dict, sf_out, sf_log, pc, arg, kwargs, reader, error,
      file, gen, ids, labels, features, ex_num, total, matrix, stderr, log, result,
      source, pandas_kwargs, _sep, _engine, first, round, read_csv_kwargs,
      loggers, closed, made, showwarning, lg_call>>

-----------------------------------------------------------------------------
(* Bounds of the model *)

MaxTokLen == 3

MaxLines == 3

MaxRows == 2

-----------------------------------------------------------------------------
(* Python values *)

Str(s) == [k |-> "str", s |-> s, n |-> 0, e |-> 0]

IntV(n) == [k |-> "int", s |-> <<>>, n |-> n, e |-> 0]

RECURSIVE Normalise(_, _)
Normalise(m, e) ==
    IF m = 0 THEN <<0, 0>>
    ELSE IF e > 0 /\ m % 10 = 0 THEN Normalise(m \div 10, e - 1)
    ELSE <<m, e>>

FloatV(m, e) ==
    LET p == Normalise(m, e) IN [k |-> "float", s |-> <<>>, n |-> p[1], e |-> p[2]]

NoneV == [k |-> "none", s |-> <<>>, n |-> 0, e |-> 0]

(* The characters a token of the model is made of: two digits, the decimal *)
(* point, the sign and a letter.                                           *)
Alphabet == {"0", "1", ".", "-", "a"}

RECURSIVE TextsUpTo(_)
TextsUpTo(n) ==
    IF n = 0 THEN {<<>>}
    ELSE LET shorter == TextsUpTo(n - 1)
         IN shorter \cup {Append(t, c) : t \in {u \in shorter : Len(u) = n - 1}, c \in Alphabet}

Tokens == TextsUpTo(MaxTokLen) \ {<<>>}

-----------------------------------------------------------------------------
(* int(), float() and str() of the Python runtime, on the model's texts *)

IsDigit(c) == c \in {"0", "1", "2", "3", "4", "5", "6", "7", "8", "9"}

DigitVal(c) ==
    CASE c = "0" -> 0 [] c = "1" -> 1 [] c = "2" -> 2 [] c = "3" -> 3 [] c = "4" -> 4
      [] c = "5" -> 5 [] c = "6" -> 6 [] c = "7" -> 7 [] c = "8" -> 8 [] c = "9" -> 9

DigitChar(d) == <<"0", "1", "2", "3", "4", "5", "6", "7", "8", "9">>[d + 1]

RECURSIVE DigitsToNat(_)
DigitsToNat(s) ==
    IF Len(s) = 0 THEN 0
    ELSE 10 * DigitsToNat(SubSeq(s, 1, Len(s) - 1)) + DigitVal(s[Len(s)])

RECURSIVE NatToDigits(_)
NatToDigits(n) ==
    IF n < 10 THEN <<DigitChar(n)>>
    ELSE Append(NatToDigits(n \div 10), DigitChar(n % 10))

RECURSIVE Pow10(_)
Pow10(e) == IF e = 0 THEN 1 ELSE 10 * Pow10(e - 1)

Unsigned(s) == IF Len(s) > 0 /\ s[1] = "-" THEN Tail(s) ELSE s

Sign(s) == IF Len(s) > 0 /\ s[1] = "-" THEN -1 ELSE 1

AllDigits(s) == \A i \in 1..Len(s) : IsDigit(s[i])

(* int(text) succeeds: an optional sign and at least one digit *)
IsIntLiteral(s) == Len(Unsigned(s)) > 0 /\ AllDigits(Unsigned(s))

IntOfText(s) == Sign(s) * DigitsToNat(Unsigned(s))

DotAt(s) == IF \E i \in 1..Len(s) : s[i] = "." THEN CHOOSE i \in 1..Len(s) : s[i] = "." ELSE 0

IntPart(s) == IF DotAt(s) = 0 THEN s ELSE SubSeq(s, 1, DotAt(s) - 1)

FracPart(s) == IF DotAt(s) = 0 THEN <<>> ELSE SubSeq(s, DotAt(s) + 1, Len(s))

(* float(text) succeeds: an optional sign, digits with at most one decimal *)
(* point, at least one digit ("1", "1.", ".1", "-0.1")                     *)
IsFloatLiteral(s) ==
    LET u == Unsigned(s)
    IN /\ AllDigits(IntPart(u))
       /\ AllDigits(FracPart(u))
       /\ Len(IntPart(u)) + Len(FracPart(u)) > 0

FloatOfText(s) ==
    LET u == Unsigned(s)
    IN FloatV(Sign(s) * DigitsToNat(IntPart(u) \o FracPart(u)), Len(FracPart(u)))

IntText(n) == IF n < 0 THEN <<"-">> \o NatToDigits(-n) ELSE NatToDigits(n)

RECURSIVE PadZeros(_, _)
PadZeros(s, w) == IF Len(s) >= w THEN s ELSE PadZeros(<<"0">> \o s, w)

(* str(value): the text of a str, "None", the digits of an int, and for a  *)
(* float the shortest form with a decimal point ("3.5", "1.0")             *)
text_type(v) ==
    CASE v.k = "str" -> v.s
      [] v.k = "none" -> <<"N", "o", "n", "e">>
      [] v.k = "int" -> IntText(v.n)
      [] v.k = "float" ->
           LET a == IF v.n < 0 THEN -v.n ELSE v.n
               whole == a \div Pow10(v.e)
               frac == a % Pow10(v.e)
           IN (IF v.n < 0 THEN <<"-">> ELSE <<>>) \o NatToDigits(whole) \o <<".">>
                \o (IF v.e = 0 THEN <<"0">> ELSE PadZeros(NatToDigits(frac), v.e))

(* int(x) of a number truncates towards zero *)
Truncate(v) ==
    LET a == IF v.n < 0 THEN -v.n ELSE v.n
    IN (IF v.n < 0 THEN -1 ELSE 1) * (a \div Pow10(v.e))

-----------------------------------------------------------------------------
(* safe_float *)

(* A replacement mapping (class_map): absent, or a dict from text to value *)
NoDict == [some |-> FALSE, d |-> [t \in {} |-> NoneV]]

Dict(f) == [some |-> TRUE, d |-> f]

(* Coerce with the two conversions tried in the other order *)
CoerceFloatFirst(v) ==
    CASE v.k = "none" -> IntV(0)
      [] v.k = "int" -> v
      [] v.k = "float" -> IntV(Truncate(v))
      [] v.k = "str" ->
           IF IsFloatLiteral(v.s) THEN FloatOfText(v.s)
           ELSE IF IsIntLiteral(v.s) THEN IntV(IntOfText(v.s))
           ELSE Str(v.s)

(* The try/except ladder of safe_float on the value left after the        *)
(* replacement step: int(text), then float(text), then the text itself;   *)
(* int(None) raises TypeError, which the outer handler turns into 0.      *)
Coerce(v) ==
    CASE v.k = "none" -> IntV(0)
      [] v.k = "int" -> v
      [] v.k = "float" -> IntV(Truncate(v))
      [] v.k = "str" ->
           IF IsIntLiteral(v.s) THEN IntV(IntOfText(v.s))
           ELSE IF IsFloatLiteral(v.s) THEN FloatOfText(v.s)
           ELSE Str(v.s)

(* safe_float looking the replacement up again in the mapping *)
safe_floatTransitive(text, replace_dict) ==
    LET t == text_type(text)
        hit == replace_dict.some /\ t \in DOMAIN replace_dict.d
        once == IF hit THEN replace_dict.d[t] ELSE Str(t)
        again == IF hit /\ once.k = "str" /\ once.s \in DOMAIN replace_dict.d
                 THEN replace_dict.d[once.s] ELSE once
    IN [val |-> Coerce(again),
        warnings |-> IF replace_dict.some /\ ~hit THEN 1 ELSE 0]

(* safe_float(text, replace_dict): the returned value and the number of   *)
(* warnings logged by the call.                                           *)
safe_float(text, replace_dict) ==
    LET t == text_type(text)
        hit == replace_dict.some /\ t \in DOMAIN replace_dict.d
        replaced == IF hit THEN replace_dict.d[t] ELSE Str(t)
    IN [val |-> Coerce(replaced),
        warnings |-> IF replace_dict.some /\ ~hit THEN 1 ELSE 0]

-----------------------------------------------------------------------------
(* Reader.__init__ and Reader.for_path *)

ext_arff == <<".", "a", "r", "f", "f">>
ext_csv == <<".", "c", "s", "v">>
ext_jsonlines == <<".", "j", "s", "o", "n", "l", "i", "n", "e", "s">>
ext_libsvm == <<".", "l", "i", "b", "s", "v", "m">>
ext_megam == <<".", "m", "e", "g", "a", "m">>
ext_ndj == <<".", "n", "d", "j">>
ext_tsv == <<".", "t", "s", "v">>

EXT_TO_READER ==
    [x \in {ext_arff, ext_csv, ext_jsonlines, ext_libsvm, ext_megam, ext_ndj, ext_tsv} |->
        CASE x = ext_arff -> "ARFFReader"
          [] x = ext_csv -> "CSVReader"
          [] x = ext_jsonlines -> "NDJReader"
          [] x = ext_libsvm -> "LibSVMReader"
          [] x = ext_megam -> "MegaMReader"
          [] x = ext_ndj -> "NDJReader"
          [] x = ext_tsv -> "TSVReader"]

UpperCase == <<"A", "B", "C", "D", "E", "F", "G", "H", "I", "J", "K", "L", "M", "N", "O", "P", "Q", "R", "S", "T", "U", "V", "W", "X", "Y", "Z">>

LowerCase == <<"a", "b", "c", "d", "e", "f", "g", "h", "i", "j", "k", "l", "m", "n", "o", "p", "q", "r", "s", "t", "u", "v", "w", "x", "y", "z">>

(* str.lower() *)
LowerChar(c) ==
    IF \E i \in 1..Len(UpperCase) : UpperCase[i] = c
    THEN LowerCase[CHOOSE i \in 1..Len(UpperCase) : UpperCase[i] = c]
    ELSE c

lower(s) == [i \in 1..Len(s) |-> LowerChar(s[i])]

(* path.rsplit('.', 1)[-1]: the text after the last '.', the whole text   *)
(* when there is none                                                     *)
rsplit_last(s) ==
    LET dots == {i \in 1..Len(s) : s[i] = "."}
    IN IF dots = {} THEN s
       ELSE SubSeq(s, (CHOOSE i \in dots : \A j \in dots : j <= i) + 1, Len(s))

NoCol == "None"

(* The defaults of Reader.__init__'s keyword arguments *)
DefaultKwargs ==
    [quiet |-> TRUE, ids_to_floats |-> FALSE, label_col |-> "y", id_col |-> "id",
     class_map |-> NoDict, feature_hasher |-> FALSE, num_features |-> 0]

PandasReaders == {"DictListReader", "NDJReader", "CSVReader", "TSVReader", "ARFFReader"}

(* Reader.__init__ followed by the sub-class's own __init__ *)
NewReader(cls, path_or_list, kw) ==
    [cls |-> cls,
     path_or_list |-> path_or_list,
     quiet |-> kw.quiet,
     ids_to_floats |-> kw.ids_to_floats,
     label_col |-> kw.label_col,
     id_col |-> kw.id_col,
     class_map |-> kw.class_map,
     vectorizer |-> IF kw.feature_hasher
                    THEN [kind |-> "FeatureHasher", n_features |-> kw.num_features]
                    ELSE [kind |-> "DictVectorizer", n_features |-> 0],
     use_pandas |-> cls \in PandasReaders,
     regression |-> FALSE]

NoReader ==
    [cls |-> "none", path_or_list |-> [isstr |-> TRUE, path |-> <<>>, list |-> <<>>],
     quiet |-> TRUE, ids_to_floats |-> FALSE, label_col |-> "y", id_col |-> "id",
     class_map |-> NoDict, vectorizer |-> [kind |-> "DictVectorizer", n_features |-> 0],
     use_pandas |-> FALSE, regression |-> FALSE]

(* An exception: its kind, and what its message names: the source        *)
(* (path_or_list), the offending line or identifier, the listed formats  *)
Error(kind, path, mentions) == [kind |-> kind, path |-> path, exts |-> {}, mentions |-> mentions]

NoError == Error("none", <<>>, {})

(* The ValueError of for_path: its text names the path and these formats *)
UnsupportedFormat(path) ==
    [kind |-> "UnsupportedFormat", path |-> path,
     exts |-> {ext_arff, ext_csv, ext_jsonlines, ext_megam, ext_ndj, ext_tsv},
     mentions |-> {"source"}]

(* for_path comparing the extension as written *)
for_pathCaseSensitive(path_or_list, kw) ==
    IF ~path_or_list.isstr
    THEN [raised |-> FALSE, reader |-> NewReader("DictListReader", path_or_list, DefaultKwargs),
          error |-> NoError]
    ELSE LET ext == <<".">> \o rsplit_last(path_or_list.path)
         IN IF ext \notin DOMAIN EXT_TO_READER
            THEN [raised |-> TRUE, reader |-> NoReader,
                  error |-> UnsupportedFormat(path_or_list.path)]
            ELSE [raised |-> FALSE,
                  reader |-> NewReader(EXT_TO_READER[ext], path_or_list, kw),
                  error |-> NoError]

for_path(path_or_list, kw) ==
    IF ~path_or_list.isstr
    THEN [raised |-> FALSE, reader |-> NewReader("DictListReader", path_or_list, DefaultKwargs),
          error |-> NoError]
    ELSE LET ext == <<".">> \o lower(rsplit_last(path_or_list.path))
         IN IF ext \notin DOMAIN EXT_TO_READER
            THEN [raised |-> TRUE, reader |-> NoReader,
                  error |-> UnsupportedFormat(path_or_list.path)]
            ELSE [raised |-> FALSE,
                  reader |-> NewReader(EXT_TO_READER[ext], path_or_list, kw),
                  error |-> NoError]

PathArg(p) == [isstr |-> TRUE, path |-> p, list |-> <<>>]

ListArg(l) == [isstr |-> FALSE, path |-> <<>>, list |-> l]

NoArg == PathArg(<<>>)

(* The caller's step: reader = Reader.for_path(path_or_list, **kwargs) *)
ForPath(path_or_list, kw) ==
    /\ pc = "start"
    /\ arg' = path_or_list
    /\ kwargs' = kw
    /\ LET r == for_path(path_or_list, kw)
       IN /\ reader' = r.reader
          /\ error' = r.error
          /\ pc' = IF r.raised THEN "raised" ELSE "constructed"
    /\ UNCHANGED read_vars
    /\ UNCHANGED sf_vars
    /\ UNCHANGED logging_vars
    /\ UNCHANGED options_vars

-----------------------------------------------------------------------------
(* The line-by-line parsers: MegaMReader._sub_read, LibSVMReader._sub_read *)

EXAMPLE_(n) == <<"E", "X", "A", "M", "P", "L", "E", "_">> \o NatToDigits(n)

(* A MegaM line is given by its whitespace-separated tokens; its stripped *)
(* text is the tokens joined by single spaces.                            *)
RECURSIVE JoinTokens(_)
JoinTokens(toks) ==
    IF Len(toks) = 0 THEN <<>>
    ELSE IF Len(toks) = 1 THEN toks[1]
    ELSE toks[1] \o <<" ">> \o JoinTokens(Tail(toks))

RECURSIVE lstrip(_)
lstrip(s) == IF Len(s) > 0 /\ s[1] = " " THEN lstrip(Tail(s)) ELSE s

(* A parser that takes the section marks for instances *)
NoReservedLines == {}

ReservedLines == {<<<<"T", "R", "A", "I", "N">>>>, <<<<"T", "E", "S", "T">>>>, <<<<"D", "E", "V">>>>}

(* The locals of a _sub_read generator that live across its lines.  The   *)
(* LibSVM parser's label_map and feat_map are unbound until a line with a *)
(* comment assigns them.                                                  *)
Unbound == [st |-> "unbound", d |-> <<>>]

NoneMap == [st |-> "none", d |-> <<>>]

BoundMap(f) == [st |-> "dict", d |-> f]

NewGen ==
    [pos |-> 1, example_num |-> 0, curr_id |-> EXAMPLE_(0),
     label_map |-> Unbound, feat_map |-> Unbound]

(* What one resumption of a generator gives: an example (yield), the end  *)
(* of the file (stop) or an exception (raise)                             *)
Yield(g, id, label, feats, w) ==
    [kind |-> "yield", g |-> g, id |-> id, label |-> label, feats |-> feats,
     warnings |-> w, error |-> NoError]

Stop(g) ==
    [kind |-> "stop", g |-> g, id |-> <<>>, label |-> NoneV, feats |-> <<>>,
     warnings |-> 0, error |-> NoError]

Raise(g, err, w) ==
    [kind |-> "raise", g |-> g, id |-> <<>>, label |-> NoneV, feats |-> <<>>,
     warnings |-> w, error |-> err]

(* Features whose values stay the texts of the line *)
MegaMFeaturesAsText(field_pairs) ==
    LET n == Len(field_pairs) \div 2
    IN [nm \in {field_pairs[2 * i - 1] : i \in 1..n} |->
           Str(field_pairs[2 * (CHOOSE i \in 1..n : field_pairs[2 * i - 1] = nm)])]

(* dict.update(zip(names, values)) over flattened name/value pairs, the   *)
(* values through safe_float: a later pair of the same name wins          *)
MegaMFeatures(field_pairs) ==
    LET n == Len(field_pairs) \div 2
        last(nm) == CHOOSE i \in 1..n :
                      /\ field_pairs[2 * i - 1] = nm
                      /\ \A j \in 1..n : field_pairs[2 * j - 1] = nm => j <= i
    IN [nm \in {field_pairs[2 * i - 1] : i \in 1..n} |->
           safe_float(Str(field_pairs[2 * last(nm)]), NoDict).val]

(* A parser without the test of the number of distinct feature names *)
RECURSIVE MegaM_sub_readUnchecked(_, _, _)
MegaM_sub_readUnchecked(rd, lines, g) ==
    IF g.pos > Len(lines) THEN Stop(g)
    ELSE LET line == lines[g.pos]
             text == JoinTokens(line)
         IN IF Len(text) > 0 /\ text[1] = "#"
            THEN MegaM_sub_readUnchecked(rd, lines,
                                [g EXCEPT !.pos = @ + 1, !.curr_id = lstrip(Tail(text))])
            ELSE IF Len(text) = 0 \/ line \in ReservedLines
            THEN MegaM_sub_readUnchecked(rd, lines, [g EXCEPT !.pos = @ + 1])
            ELSE LET num_cols == Len(line)
                     has_label == num_cols = 1 \/ num_cols % 2 = 1
                     class_name == IF has_label
                                   THEN safe_float(Str(line[1]), rd.class_map)
                                   ELSE [val |-> NoneV, warnings |-> 0]
                     field_pairs == IF has_label THEN Tail(line) ELSE line
                     curr_info_dict == MegaMFeatures(field_pairs)
                 IN IF FALSE
                    THEN Raise(g, Error("DuplicateFeature", rd.path_or_list.path,
                                        {"source", "id"}), class_name.warnings)
                    ELSE Yield([g EXCEPT !.pos = @ + 1,
                                         !.example_num = @ + 1,
                                         !.curr_id = EXAMPLE_(g.example_num + 1)],
                               g.curr_id, class_name.val, curr_info_dict,
                               class_name.warnings)

(* A parser that keeps the identifier of a comment for every instance     *)
(* after it                                                               *)
RECURSIVE MegaM_sub_readSticky(_, _, _)
MegaM_sub_readSticky(rd, lines, g) ==
    IF g.pos > Len(lines) THEN Stop(g)
    ELSE LET line == lines[g.pos]
             text == JoinTokens(line)
         IN IF Len(text) > 0 /\ text[1] = "#"
            THEN MegaM_sub_readSticky(rd, lines,
                                [g EXCEPT !.pos = @ + 1, !.curr_id = lstrip(Tail(text))])
            ELSE IF Len(text) = 0 \/ line \in ReservedLines
            THEN MegaM_sub_readSticky(rd, lines, [g EXCEPT !.pos = @ + 1])
            ELSE LET num_cols == Len(line)
                     has_label == num_cols = 1 \/ num_cols % 2 = 1
                     class_name == IF has_label
                                   THEN safe_float(Str(line[1]), rd.class_map)
                                   ELSE [val |-> NoneV, warnings |-> 0]
                     field_pairs == IF has_label THEN Tail(line) ELSE line
                     curr_info_dict == MegaMFeatures(field_pairs)
                 IN IF 2 * Cardinality(DOMAIN curr_info_dict) # Len(field_pairs)
                    THEN Raise(g, Error("DuplicateFeature", rd.path_or_list.path,
                                        {"source", "id"}), class_name.warnings)
                    ELSE Yield([g EXCEPT !.pos = @ + 1,
                                         !.example_num = @ + 1],
                               g.curr_id, class_name.val, curr_info_dict,
                               class_name.warnings)

(* A MegaM parser that goes back to the default identifier at a blank    *)
(* line or a section mark                                                 *)
RECURSIVE MegaM_sub_readForgetful(_, _, _)
MegaM_sub_readForgetful(rd, lines, g) ==
    IF g.pos > Len(lines) THEN Stop(g)
    ELSE LET line == lines[g.pos]
             text == JoinTokens(line)
         IN IF Len(text) > 0 /\ text[1] = "#"
            THEN MegaM_sub_readForgetful(rd, lines,
                                [g EXCEPT !.pos = @ + 1, !.curr_id = lstrip(Tail(text))])
            ELSE IF Len(text) = 0 \/ line \in ReservedLines
            THEN MegaM_sub_readForgetful(rd, lines,
                                         [g EXCEPT !.pos = @ + 1,
                                                   !.curr_id = EXAMPLE_(g.example_num)])
            ELSE LET num_cols == Len(line)
                     has_label == num_cols = 1 \/ num_cols % 2 = 1
                     class_name == IF has_label
                                   THEN safe_float(Str(line[1]), rd.class_map)
                                   ELSE [val |-> NoneV, warnings |-> 0]
                     field_pairs == IF has_label THEN Tail(line) ELSE line
                     curr_info_dict == MegaMFeatures(field_pairs)
                 IN IF 2 * Cardinality(DOMAIN curr_info_dict) # Len(field_pairs)
                    THEN Raise(g, Error("DuplicateFeature", rd.path_or_list.path,
                                        {"source", "id"}), class_name.warnings)
                    ELSE Yield([g EXCEPT !.pos = @ + 1,
                                         !.example_num = @ + 1,
                                         !.curr_id = EXAMPLE_(g.example_num + 1)],
                               g.curr_id, class_name.val, curr_info_dict,
                               class_name.warnings)

RECURSIVE MegaM_sub_read(_, _, _)
MegaM_sub_read(rd, lines, g) ==
    IF g.pos > Len(lines) THEN Stop(g)
    ELSE LET line == lines[g.pos]
             text == JoinTokens(line)
         IN IF Len(text) > 0 /\ text[1] = "#"
            THEN MegaM_sub_read(rd, lines,
                                [g EXCEPT !.pos = @ + 1, !.curr_id = lstrip(Tail(text))])
            ELSE IF Len(text) = 0 \/ line \in ReservedLines
            THEN MegaM_sub_read(rd, lines, [g EXCEPT !.pos = @ + 1])
            ELSE LET num_cols == Len(line)
                     has_label == num_cols = 1 \/ num_cols % 2 = 1
                     class_name == IF has_label
                                   THEN safe_float(Str(line[1]), rd.class_map)
                                   ELSE [val |-> NoneV, warnings |-> 0]
                     field_pairs == IF has_label THEN Tail(line) ELSE line
                     curr_info_dict == MegaMFeatures(field_pairs)
                 IN IF 2 * Cardinality(DOMAIN curr_info_dict) # Len(field_pairs)
                    THEN Raise(g, Error("DuplicateFeature", rd.path_or_list.path,
                                        {"source", "id"}), class_name.warnings)
                    ELSE Yield([g EXCEPT !.pos = @ + 1,
                                         !.example_num = @ + 1,
                                         !.curr_id = EXAMPLE_(g.example_num + 1)],
                               g.curr_id, class_name.val, curr_info_dict,
                               class_name.warnings)

(* A LibSVM line is given by what line_regex makes of it: whether it      *)
(* matches, the label code, the code:value pairs, and (has_comment) the   *)
(* three segments of the trailing comment, the two mappings as the        *)
(* code=name pairs they hold.  The names of the model hold none of the    *)
(* characters of LIBSVM_REPLACE_DICT.                                     *)
LibSVMLine(label_num, feats, has_comment, example_id, label_map, feat_map) ==
    [matches |-> TRUE, label_num |-> label_num, features |-> feats,
     has_comment |-> has_comment, example_id |-> example_id,
     label_map |-> label_map, feat_map |-> feat_map]

MalformedLibSVMLine ==
    [matches |-> FALSE, label_num |-> <<>>, features |-> <<>>, has_comment |-> FALSE,
     example_id |-> <<>>, label_map |-> <<>>, feat_map |-> <<>>]

(* dict(pairs): a later pair of the same key wins *)
DictOfPairs(pairs) ==
    LET last(key) == CHOOSE i \in 1..Len(pairs) :
                       /\ pairs[i][1] = key
                       /\ \A j \in 1..Len(pairs) : pairs[j][1] = key => j <= i
    IN [key \in {pairs[i][1] : i \in 1..Len(pairs)} |-> pairs[last(key)][2]]

(* Features named by their codes whatever the mapping *)
LibSVMFeaturesByCode(pairs, feat_map) ==
    DictOfPairs([i \in 1..Len(pairs) |->
                   <<pairs[i][1], safe_float(Str(pairs[i][2]), NoDict).val>>])

(* _pair_to_tuple over the pairs of a line *)
LibSVMFeatures(pairs, feat_map) ==
    DictOfPairs([i \in 1..Len(pairs) |->
                   <<IF feat_map.st = "dict" THEN feat_map.d[pairs[i][1]] ELSE pairs[i][1],
                     safe_float(Str(pairs[i][2]), NoDict).val>>])

LibSVM_sub_read(rd, lines, g) ==
    IF g.pos > Len(lines) THEN Stop(g)
    ELSE LET line == lines[g.pos]
             example_num == g.pos - 1
             feat_map == IF line.matches /\ line.has_comment
                         THEN (IF Len(line.feat_map) > 0
                               THEN BoundMap(DictOfPairs(line.feat_map)) ELSE NoneMap)
                         ELSE g.feat_map
             label_map == IF line.matches /\ line.has_comment
                          THEN (IF Len(line.label_map) > 0
                                THEN BoundMap(DictOfPairs(line.label_map)) ELSE NoneMap)
                          ELSE g.label_map
             comment_id == IF line.matches /\ line.has_comment THEN line.example_id ELSE <<>>
             curr_id == IF comment_id = <<>> THEN EXAMPLE_(example_num) ELSE comment_id
             g2 == [g EXCEPT !.pos = @ + 1, !.label_map = label_map, !.feat_map = feat_map]
             mapped == label_map.st = "dict" /\ DOMAIN label_map.d # {}
         IN IF ~line.matches
            THEN Raise(g, Error("MalformedLine", <<>>, {"line"}), 0)
            ELSE IF label_map.st = "unbound"
            THEN Raise(g2, Error("UnboundLocalError", <<>>, {}), 0)
            ELSE IF mapped /\ line.label_num \notin DOMAIN label_map.d
            THEN Raise(g2, Error("KeyError", <<>>, {}), 0)
            ELSE LET class_name == safe_float(Str(IF mapped THEN label_map.d[line.label_num]
                                                  ELSE line.label_num), rd.class_map)
                 IN IF /\ feat_map.st = "dict"
                       /\ \E i \in 1..Len(line.features) :
                             line.features[i][1] \notin DOMAIN feat_map.d
                    THEN Raise(g2, Error("KeyError", <<>>, {}), class_name.warnings)
                    ELSE Yield(g2, curr_id, class_name.val,
                               LibSVMFeatures(line.features, feat_map), class_name.warnings)

(* next() on the generator self._sub_read(f) of a row-by-row reader *)
sub_read_next(rd, lines, g) ==
    IF rd.cls = "MegaMReader" THEN MegaM_sub_read(rd, lines, g)
    ELSE LibSVM_sub_read(rd, lines, g)

-----------------------------------------------------------------------------
(* The table-oriented parsers.  A data frame is [cols, rows]: the set of  *)
(* its column names and its rows, each a function from column to cell.    *)

DataFrame(cols, rows) == [cols |-> cols, rows |-> rows]

NaN == [k |-> "nan", s |-> <<>>, n |-> 0, e |-> 0]

(* Series.astype(float) on one cell *)
CanFloat(v) == v.k \in {"int", "float", "none", "nan"} \/ (v.k = "str" /\ IsFloatLiteral(v.s))

ToFloat(v) ==
    CASE v.k = "str" -> FloatOfText(v.s)
      [] v.k = "int" -> FloatV(v.n, 0)
      [] v.k = "float" -> v
      [] OTHER -> NaN

RECURSIVE SumWarnings(_)
SumWarnings(rs) == IF Len(rs) = 0 THEN 0 ELSE rs[1].warnings + SumWarnings(Tail(rs))

Parsed(p_ids, p_labels, p_features, w) ==
    [raised |-> FALSE, error |-> NoError, ids |-> p_ids, labels |-> p_labels,
     features |-> p_features, warnings |-> w]

Failed(err) ==
    [raised |-> TRUE, error |-> err, ids |-> <<>>, labels |-> <<>>, features |-> <<>>,
     warnings |-> 0]

NoFeatures == [some |-> FALSE, list |-> <<>>]

GivenFeatures(l) == [some |-> TRUE, list |-> l]

(* Reader._parse_dataframe(df, id_col, label_col, features) *)
_parse_dataframe(rd, df, id_col, label_col, given) ==
    LET N == Len(df.rows)
        has_ids == id_col # NoCol /\ id_col \in df.cols
        has_labels == label_col # NoCol /\ label_col \in df.cols
        rest == (df.cols \ (IF has_ids THEN {id_col} ELSE {}))
                    \ (IF has_labels THEN {label_col} ELSE {})
        coerced == [i \in 1..N |-> safe_float(df.rows[i][label_col], rd.class_map)]
    IN IF N = 0 \/ df.cols = {}
       THEN Failed(Error("EmptyInput", rd.path_or_list.path, {"source"}))
       ELSE IF has_ids /\ rd.ids_to_floats /\ \E i \in 1..N : ~CanFloat(df.rows[i][id_col])
       THEN Failed(Error("InvalidId", <<>>, {"id"}))
       ELSE Parsed(IF has_ids
                   THEN [i \in 1..N |-> IF rd.ids_to_floats THEN ToFloat(df.rows[i][id_col])
                                        ELSE df.rows[i][id_col]]
                   ELSE [i \in 1..N |-> Str(EXAMPLE_(i - 1))],
                   IF has_labels THEN [i \in 1..N |-> coerced[i].val]
                   ELSE [i \in 1..N |-> NoneV],
                   IF given.some THEN given.list
                   ELSE [i \in 1..N |-> [c \in rest |-> df.rows[i][c]]],
                   IF has_labels THEN SumWarnings(coerced) ELSE 0)

(* pd.DataFrame(list_of_dicts): the columns are the keys of the records   *)
(* (the records of the model all have the same keys)                      *)
FrameOfRecords(list_of_dicts) ==
    LET cols == UNION {DOMAIN list_of_dicts[i] : i \in 1..Len(list_of_dicts)}
    IN DataFrame(cols, [i \in 1..Len(list_of_dicts) |->
                          [c \in cols |-> list_of_dicts[i][c]]])

(* _sub_read of DictListReader and of NDJReader once the frame is built:  *)
(* the features are the cells of column x, the identifiers column id and  *)
(* the labels column y whatever the configured column names.              *)
RecordFrame_sub_read(rd, df, ids_as_text) ==
    LET N == Len(df.rows)
        df2 == IF ids_as_text /\ "id" \in df.cols
               THEN DataFrame(df.cols,
                              [i \in 1..N |-> [df.rows[i] EXCEPT !["id"] = Str(text_type(@))]])
               ELSE df
    IN IF N = 0 \/ df.cols = {} THEN _parse_dataframe(rd, df, NoCol, NoCol, NoFeatures)
       ELSE IF "x" \notin df.cols THEN Failed(Error("KeyError", <<>>, {}))
       ELSE _parse_dataframe(rd, df2,
                             IF "id" \in df.cols THEN "id" ELSE NoCol,
                             IF "y" \in df.cols THEN "y" ELSE NoCol,
                             GivenFeatures([i \in 1..N |-> df.rows[i]["x"]]))

DictList_sub_read(rd, list_of_dicts) ==
    RecordFrame_sub_read(rd, FrameOfRecords(list_of_dicts), FALSE)

(* NDJReader._sub_read on the frame pd.read_json gives *)
NDJ_sub_read(rd, df) == RecordFrame_sub_read(rd, df, TRUE)

(* CSVReader._sub_read (and TSVReader's) on the frame pd.read_csv gives *)
CSV_sub_read(rd, df) == _parse_dataframe(rd, df, rd.id_col, rd.label_col, NoFeatures)

(* An ARFF file: whether it has an @data line, its @attribute lines in    *)
(* order (name, type) and the rows of its data block, each a sequence of  *)
(* cells as pandas reads them.                                            *)
ARFFFile(has_data, attributes, data) ==
    [has_data |-> has_data, attributes |-> attributes, data |-> data]

(* A flag that any numeric attribute sets *)
ARFFRegressionOfAny(rd, attributes) ==
    \E i \in 1..Len(attributes) : attributes[i][2] = "numeric"

(* self.regression after the header loop of ARFFReader._sub_read *)
ARFFRegression(rd, attributes) ==
    LET own == {i \in 1..Len(attributes) : attributes[i][1] = rd.label_col}
    IN IF own = {} THEN rd.regression
       ELSE attributes[CHOOSE i \in own : \A j \in own : j <= i][2] = "numeric"

(* ARFFReader._sub_read: the data block becomes a frame whose columns are *)
(* the attribute names in order                                           *)
ARFF_sub_read(rd, f) ==
    LET columns == [i \in 1..Len(f.attributes) |-> f.attributes[i][1]]
        width == IF Len(f.data) = 0 THEN 0 ELSE Len(f.data[1])
        df == DataFrame({columns[i] : i \in 1..Len(columns)},
                        [r \in 1..Len(f.data) |->
                           [c \in {columns[i] : i \in 1..Len(columns)} |->
                              f.data[r][CHOOSE i \in 1..Len(columns) : columns[i] = c]]])
    IN IF ~f.has_data THEN Failed(Error("ValueError", <<>>, {}))
       ELSE IF Len(f.data) = 0 THEN Failed(Error("EmptyInput", <<>>, {}))
       ELSE IF width # Len(columns) THEN Failed(Error("ValueError", <<>>, {}))
       ELSE _parse_dataframe(rd, df, rd.id_col, rd.label_col, NoFeatures)

(* self._sub_read(self.path_or_list) of a pandas-based reader *)
pandas_sub_read(rd, f) ==
    CASE rd.cls = "DictListReader" -> DictList_sub_read(rd, f)
      [] rd.cls = "NDJReader" -> NDJ_sub_read(rd, f)
      [] rd.cls = "ARFFReader" -> ARFF_sub_read(rd, f)
      [] OTHER -> CSV_sub_read(rd, f)

(* len(set(ids)): equal numbers are one element whatever their type *)
IdKey(v) == IF v.k \in {"int", "float"} THEN FloatV(v.n, v.e) ELSE v

(* A count that takes every identifier for a new one *)
DistinctIdsAll(id_seq) == Len(id_seq)

DistinctIds(id_seq) == Cardinality({IdKey(id_seq[i]) : i \in 1..Len(id_seq)})

-----------------------------------------------------------------------------
(* Reader.read, step by step *)

NotOpened == "not opened"

NoResult ==
    [ids |-> <<>>, labels |-> <<>>, features |-> <<>>, vectorizer |-> [kind |-> "none", n_features |-> 0]]

(* A dataset that always names the dictionary vectorizer *)
FeatureSetOfDict(fs_ids, fs_labels, fs_features, vectorizer) ==
    [ids |-> fs_ids, labels |-> fs_labels, features |-> fs_features,
     vectorizer |-> [kind |-> "DictVectorizer", n_features |-> 0]]

(* FeatureSet(path_or_list, ids, labels=labels, features=features, vectorizer=...) *)
FeatureSet(fs_ids, fs_labels, fs_features, vectorizer) ==
    [ids |-> fs_ids, labels |-> fs_labels, features |-> fs_features, vectorizer |-> vectorizer]

(* _print_progress without the test of quiet *)
_print_progressAlways(rd, written, msg) == Append(written, msg)

(* Reader._print_progress and the start message of read: nothing is      *)
(* written when self.quiet                                                *)
_print_progress(rd, written, msg) == IF rd.quiet THEN written ELSE Append(written, msg)

(* read() of a row-by-row reader up to the open() of _sub_read_rows; the  *)
(* lines the file holds are the environment's choice.                     *)
ReadBeginRows(lines) ==
    /\ pc = "constructed"
    /\ ~reader.use_pandas
    /\ stderr' = _print_progress(reader, stderr, "Loading")
    /\ file' = lines
    /\ gen' = NewGen
    /\ ids' = <<>>
    /\ labels' = <<>>
    /\ ex_num' = 0
    /\ pc' = "pass1"
    /\ UNCHANGED <<arg, kwargs, reader, error, features, total, matrix, log, result>>
    /\ UNCHANGED sf_vars
    /\ UNCHANGED logging_vars
    /\ UNCHANGED options_vars

(* One iteration of the first loop of _sub_read_rows *)
Pass1Example ==
    /\ pc = "pass1"
    /\ LET r == sub_read_next(reader, file, gen)
       IN /\ r.kind = "yield"
          /\ gen' = r.g
          /\ log' = log + r.warnings
          /\ IF reader.ids_to_floats /\ ~IsFloatLiteral(r.id)
             THEN /\ pc' = "raised"
                  /\ error' = Error("InvalidId", reader.path_or_list.path, {"source", "id"})
                  /\ UNCHANGED <<ids, labels, ex_num, stderr>>
             ELSE /\ ids' = Append(ids, IF reader.ids_to_floats THEN FloatOfText(r.id)
                                        ELSE Str(r.id))
                  /\ labels' = Append(labels, r.label)
                  /\ ex_num' = ex_num + 1
                  /\ stderr' = IF (ex_num + 1) % 100 = 0
                               THEN _print_progress(reader, stderr, "count") ELSE stderr
                  /\ UNCHANGED <<pc, error>>
    /\ UNCHANGED <<arg, kwargs, reader, file, features, total, matrix, result>>
    /\ UNCHANGED sf_vars
    /\ UNCHANGED logging_vars
    /\ UNCHANGED options_vars

(* The generator raises in the first loop *)
Pass1Raise ==
    /\ pc = "pass1"
    /\ LET r == sub_read_next(reader, file, gen)
       IN /\ r.kind = "raise"
          /\ gen' = r.g
          /\ log' = log + r.warnings
          /\ error' = r.error
    /\ pc' = "raised"
    /\ UNCHANGED <<arg, kwargs, reader, file, ids, labels, features, ex_num, total,
                   matrix, stderr, result>>
    /\ UNCHANGED sf_vars
    /\ UNCHANGED logging_vars
    /\ UNCHANGED options_vars

(* The end of the first loop without the test of the total *)
Pass1EndUnchecked ==
    /\ pc = "pass1"
    /\ sub_read_next(reader, file, gen).kind = "stop"
    /\ stderr' = _print_progress(reader, stderr, "count")
    /\ total' = ex_num
    /\ pc' = "pass2"
    /\ gen' = NewGen
    /\ matrix' = <<>>
    /\ UNCHANGED <<arg, kwargs, reader, error, file, ids, labels, features, ex_num, log,
                   result>>
    /\ UNCHANGED sf_vars
    /\ UNCHANGED logging_vars
    /\ UNCHANGED options_vars

(* The end of the first loop with the second pass reading on in the file  *)
(* the first pass has read to its end                                     *)
Pass1EndSameFile ==
    /\ pc = "pass1"
    /\ sub_read_next(reader, file, gen).kind = "stop"
    /\ stderr' = _print_progress(reader, stderr, "count")
    /\ total' = ex_num
    /\ IF ex_num = 0
       THEN /\ pc' = "raised"
            /\ error' = Error("EmptyInput", reader.path_or_list.path, {"source"})
            /\ UNCHANGED <<gen, matrix>>
       ELSE /\ pc' = "pass2"
            /\ gen' = gen
            /\ matrix' = <<>>
            /\ UNCHANGED error
    /\ UNCHANGED <<arg, kwargs, reader, file, ids, labels, features, ex_num, log, result>>
    /\ UNCHANGED sf_vars
    /\ UNCHANGED logging_vars
    /\ UNCHANGED options_vars

(* The end of the first loop: the total is remembered, an empty file is   *)
(* an error, and the generator of the feature mappings is created         *)
Pass1End ==
    /\ pc = "pass1"
    /\ sub_read_next(reader, file, gen).kind = "stop"
    /\ stderr' = _print_progress(reader, stderr, "count")
    /\ total' = ex_num
    /\ IF ex_num = 0
       THEN /\ pc' = "raised"
            /\ error' = Error("EmptyInput", reader.path_or_list.path, {"source"})
            /\ UNCHANGED <<gen, matrix>>
       ELSE /\ pc' = "pass2"
            /\ gen' = NewGen
            /\ matrix' = <<>>
            /\ UNCHANGED error
    /\ UNCHANGED <<arg, kwargs, reader, file, ids, labels, features, ex_num, log, result>>
    /\ UNCHANGED sf_vars
    /\ UNCHANGED logging_vars
    /\ UNCHANGED options_vars

(* The vectorizer takes the next mapping of feat_dict_generator; an       *)
(* exception of the generator leaves fit_transform and read               *)
Pass2Example ==
    /\ pc = "pass2"
    /\ LET r == sub_read_next(reader, file, gen)
       IN /\ r.kind # "stop"
          /\ gen' = r.g
          /\ log' = log + r.warnings
          /\ IF r.kind = "raise"
             THEN /\ pc' = "raised"
                  /\ error' = r.error
                  /\ UNCHANGED <<matrix, stderr>>
             ELSE /\ matrix' = Append(matrix, r.feats)
                  /\ stderr' = IF Len(matrix) % 100 = 0
                               THEN _print_progress(reader, stderr, "percent") ELSE stderr
                  /\ UNCHANGED <<pc, error>>
    /\ UNCHANGED <<arg, kwargs, reader, file, ids, labels, features, ex_num, total, result>>
    /\ UNCHANGED sf_vars
    /\ UNCHANGED logging_vars
    /\ UNCHANGED options_vars

(* feat_dict_generator is exhausted: fit_transform returns the matrix *)
Pass2End ==
    /\ pc = "pass2"
    /\ sub_read_next(reader, file, gen).kind = "stop"
    /\ stderr' = _print_progress(reader, stderr, "100%")
    /\ pc' = "assemble"
    /\ UNCHANGED <<arg, kwargs, reader, error, file, gen, ids, labels, features, ex_num,
                   total, matrix, log, result>>
    /\ UNCHANGED sf_vars
    /\ UNCHANGED logging_vars
    /\ UNCHANGED options_vars

(* read() of a pandas-based reader up to the call of _sub_read; what      *)
(* pandas makes of the file is the environment's choice, an in-memory     *)
(* list is the argument itself.                                           *)
ReadBeginPandas(content) ==
    /\ pc = "constructed"
    /\ reader.use_pandas
    /\ stderr' = _print_progress(reader, stderr, "Loading")
    /\ file' = IF reader.path_or_list.isstr THEN content ELSE reader.path_or_list.list
    /\ pc' = "sub_read"
    /\ UNCHANGED <<arg, kwargs, reader, error, gen, ids, labels, features, ex_num, total,
                   matrix, log, result>>
    /\ UNCHANGED sf_vars
    /\ UNCHANGED logging_vars
    /\ UNCHANGED options_vars

(* self._sub_read(self.path_or_list) of a pandas-based reader *)
SubRead ==
    /\ pc = "sub_read"
    /\ LET r == pandas_sub_read(reader, file)
       IN /\ reader' = IF reader.cls = "ARFFReader" /\ file.has_data /\ Len(file.data) > 0
                       THEN [reader EXCEPT !.regression = ARFFRegression(reader, file.attributes)]
                       ELSE reader
          /\ IF r.raised
             THEN /\ pc' = "raised"
                  /\ error' = r.error
                  /\ UNCHANGED <<ids, labels, features, log>>
             ELSE /\ pc' = "vectorize"
                  /\ ids' = r.ids
                  /\ labels' = r.labels
                  /\ features' = r.features
                  /\ log' = log + r.warnings
                  /\ UNCHANGED error
    /\ UNCHANGED <<arg, kwargs, file, gen, ex_num, total, matrix, stderr, result>>
    /\ UNCHANGED sf_vars
    /\ UNCHANGED logging_vars
    /\ UNCHANGED options_vars

(* self.vectorizer.fit_transform(features) on a list of mappings: one row *)
(* of the matrix per mapping, in order                                    *)
Vectorize ==
    /\ pc = "vectorize"
    /\ matrix' = features
    /\ pc' = "assemble"
    /\ UNCHANGED <<arg, kwargs, reader, error, file, gen, ids, labels, features, ex_num,
                   total, stderr, log, result>>
    /\ UNCHANGED sf_vars
    /\ UNCHANGED logging_vars
    /\ UNCHANGED options_vars

(* The end of read: the completion message, the assertion on the three    *)
(* lengths, the uniqueness of the identifiers, the FeatureSet             *)
ReadFinish ==
    /\ pc = "assemble"
    /\ stderr' = _print_progress(reader, stderr, "done")
    /\ IF ~(Len(ids) = Len(labels) /\ Len(labels) = Len(matrix))
       THEN /\ pc' = "raised"
            /\ error' = Error("AssertionError", <<>>, {})
            /\ UNCHANGED result
       ELSE IF Len(ids) # DistinctIds(ids)
       THEN /\ pc' = "raised"
            /\ error' = Error("DuplicateId", reader.path_or_list.path, {"source"})
            /\ UNCHANGED result
       ELSE /\ pc' = "returned"
            /\ result' = FeatureSet(ids, labels, matrix, reader.vectorizer)
            /\ UNCHANGED error
    /\ UNCHANGED <<arg, kwargs, reader, file, gen, ids, labels, features, ex_num, total,
                   matrix, log>>
    /\ UNCHANGED sf_vars
    /\ UNCHANGED logging_vars
    /\ UNCHANGED options_vars

-----------------------------------------------------------------------------
(* The inputs of the model *)

RECURSIVE SeqsUpTo(_, _)
SeqsUpTo(S, n) ==
    IF n = 0 THEN {<<>>}
    ELSE LET shorter == SeqsUpTo(S, n - 1)
         IN shorter \cup {Append(q, x) : q \in {u \in shorter : Len(u) = n - 1}, x \in S}

MegaMLines ==
    {<<<<"#">>, <<"1", ".", "0">>>>, <<<<"#", "a">>>>, <<<<"T", "R", "A", "I", "N">>>>, <<>>,
     <<<<"T", "E", "S", "T">>>>, <<<<"D", "E", "V">>>>,
     <<<<"a">>, <<"f">>, <<"1">>>>,
     <<<<"f">>, <<"1", ".", "0">>, <<"g">>, <<"a">>>>,
     <<<<"0">>>>,
     <<<<"1">>, <<"f">>, <<"1">>, <<"f">>, <<"0">>>>}

LibSVMLines ==
    {LibSVMLine(<<"1">>, << <<<<"1">>, <<"1">>>> >>, FALSE, <<>>, <<>>, <<>>),
     LibSVMLine(<<"1">>, << <<<<"1">>, <<"0", ".", "5">>>>, <<<<"2">>, <<"1">>>> >>, TRUE, <<"1">>,
                << <<<<"1">>, <<"a">>>> >>, << <<<<"1">>, <<"f">>>>, <<<<"2">>, <<"g">>>> >>),
     LibSVMLine(<<"0">>, << <<<<"1">>, <<"1">>>> >>, TRUE, <<"1", ".", "0">>,
                << <<<<"0">>, <<"b">>>>, <<<<"1">>, <<"a">>>> >>, << <<<<"1">>, <<"f">>>> >>),
     LibSVMLine(<<"0">>, << <<<<"2">>, <<"1">>>> >>, TRUE, <<"a">>, <<>>, <<>>),
     MalformedLibSVMLine}

LinesOf(cls) ==
    SeqsUpTo(IF cls = "MegaMReader" THEN MegaMLines ELSE LibSVMLines, MaxLines)

(* Rows of a table: an identifier, a label, a feature f and, for the      *)
(* record formats, the mapping x                                          *)
BaseRows ==
    {[id |-> Str(<<"a">>), y |-> Str(<<"1">>), f |-> IntV(1), x |-> [f |-> IntV(1)]],
     [id |-> Str(<<"1">>), y |-> Str(<<"a">>), f |-> FloatV(5, 1), x |-> [g |-> FloatV(5, 1)]],
     [id |-> Str(<<"1", ".", "0">>), y |-> FloatV(15, 1), f |-> IntV(0),
      x |-> [f |-> IntV(0), g |-> IntV(1)]]}

RowSeqs == SeqsUpTo(BaseRows, MaxRows)

Restrict(row, cols) == [c \in cols |-> row[c]]

FramesOver(colsets) ==
    {DataFrame(cols, [i \in 1..Len(rows) |-> Restrict(rows[i], cols)]) :
        cols \in colsets, rows \in RowSeqs}

Cells(attributes, row) == [i \in 1..Len(attributes) |-> row[attributes[i][1]]]

ARFFHeaders ==
    {<< <<"id", "string">>, <<"f", "numeric">>, <<"y", "numeric">> >>,
     << <<"f", "numeric">>, <<"y", "{a,b}">> >>}

ARFFFiles ==
    {ARFFFile(TRUE, h, [i \in 1..Len(rows) |-> Cells(h, rows[i])]) :
        h \in ARFFHeaders, rows \in RowSeqs}
      \cup {ARFFFile(FALSE, << <<"f", "numeric">> >>, <<>>)}
      \cup {ARFFFile(TRUE, << <<"f", "numeric">> >>, << <<IntV(1), Str(<<"a">>)>> >>)}

(* What pandas can make of the file of a pandas-based reader *)
ContentsOf(cls) ==
    CASE cls = "ARFFReader" -> ARFFFiles
      [] cls = "NDJReader" -> FramesOver({{"id", "y", "x"}, {"y", "x"}, {"id", "y"}})
      [] cls = "DictListReader" -> {<<>>}
      [] OTHER -> FramesOver({{"id", "y", "f"}, {"y", "f"}, {"id", "f"}})

ReadLists ==
    {[i \in 1..Len(rows) |-> Restrict(rows[i], cols)] :
        cols \in {{"id", "y", "x"}, {"x"}, {"id", "y"}}, rows \in RowSeqs}

ReadPaths ==
    {<<"d", ".", "m", "e", "g", "a", "m">>, <<"d", ".", "l", "i", "b", "s", "v", "m">>, <<"d", ".", "c", "s", "v">>, <<"d", ".", "T", "S", "V">>, <<"d", ".", "a", "r", "f", "f">>, <<"d", ".", "n", "d", "j">>, <<"d", ".", "t", "x", "t">>}

ClassMapPosNeg ==
    Dict([t \in {<<"a">>, <<"1">>} |-> IF t = <<"a">> THEN Str(<<"1">>) ELSE Str(<<"a">>)])

KwargsPool ==
    {DefaultKwargs,
     [DefaultKwargs EXCEPT !.ids_to_floats = TRUE],
     [DefaultKwargs EXCEPT !.quiet = FALSE, !.class_map = ClassMapPosNeg],
     [DefaultKwargs EXCEPT !.feature_hasher = TRUE, !.num_features = 3],
     [DefaultKwargs EXCEPT !.label_col = "label", !.id_col = NoCol]}

-----------------------------------------------------------------------------
(* The specifications: calls of for_path on paths of every spelling, calls *)
(* of safe_float on every input of the model, and for_path followed by     *)
(* read on every source of the model                                      *)

Stems == {<<>>, <<"d">>, <<"a", ".", "b", "/", "d">>}

Suffixes ==
    {<<".", "c", "s", "v">>,
     <<".", "C", "S", "V">>,
     <<".", "C", "s", "v">>,
     <<".", "t", "s", "v">>,
     <<".", "T", "S", "V">>,
     <<".", "a", "r", "f", "f">>,
     <<".", "A", "R", "F", "F">>,
     <<".", "j", "s", "o", "n", "l", "i", "n", "e", "s">>,
     <<".", "J", "s", "o", "n", "L", "i", "n", "e", "s">>,
     <<".", "n", "d", "j">>,
     <<".", "N", "D", "J">>,
     <<".", "l", "i", "b", "s", "v", "m">>,
     <<".", "L", "i", "b", "S", "V", "M">>,
     <<".", "m", "e", "g", "a", "m">>,
     <<".", "M", "E", "G", "A", "M">>,
     <<".", "t", "x", "t">>,
     <<".", "c", "s", "v", "x">>,
     <<".", "c", "s">>,
     <<".">>,
     <<>>,
     <<"c", "s", "v">>,
     <<"m", "e", "g", "a", "m">>,
     <<".", "c", "s", "v", "/", "d">>,
     <<".", "j", "s", "o", "n">>,
     <<".", "c", "s", "v", ".", "g", "z">>}

(* Paths without any '.' *)
Dotless == {<<"c", "s", "v">>, <<"M", "e", "g", "a", "m">>, <<"d">>}

DispatchPaths == {st \o su : st \in Stems, su \in Suffixes} \cup Dotless

DispatchLists ==
    {<<>>,
     <<[id |-> Str(<<"a">>), y |-> Str(<<"1">>), x |-> [f |-> IntV(1)]]>>}

SfNoResult == [k |-> "pending", s |-> <<>>, n |-> 0, e |-> 0]

SfIdle ==
    /\ sf_pc = "idle"
    /\ sf_text = NoneV
    /\ sf_dict = NoDict
    /\ sf_out = SfNoResult
    /\ sf_log = 0

DispatchIdle ==
    /\ pc = "start"
    /\ arg = NoArg
    /\ kwargs = DefaultKwargs
    /\ reader = NoReader
    /\ error = NoError

ReadIdle ==
    /\ file = NotOpened
    /\ gen = NewGen
    /\ ids = <<>>
    /\ labels = <<>>
    /\ features = <<>>
    /\ ex_num = 0
    /\ total = 0
    /\ matrix = <<>>
    /\ stderr = <<>>
    /\ log = 0
    /\ result = NoResult

(* No delimited file, no options mapping and no earlier read *)
NoSource == [delimiter |-> ",", header |-> <<>>, rows |-> <<>>]

NoOptions == [o \in {} |-> ""]

NoOutcome == [raised |-> FALSE, error |-> NoError, result |-> NoResult]

(* The names of the loggers of the model; no logger has a handler, no    *)
(* logutils function has been called                                      *)
LoggerNames == {"skll", "experiment"}

NoCall == [op |-> "none", name |-> "", filepath |-> <<>>]

LoggingIdle ==
    /\ loggers = [n \in LoggerNames |-> <<>>]
    /\ closed = {}
    /\ made = 0
    /\ showwarning = ""
    /\ lg_call = NoCall

OptionsIdle ==
    /\ source = NoSource
    /\ pandas_kwargs = NoOptions
    /\ _sep = ","
    /\ _engine = "c"
    /\ first = NoOutcome
    /\ round = 1
    /\ read_csv_kwargs = NoOptions

InitDispatch == SfIdle /\ DispatchIdle /\ ReadIdle /\ OptionsIdle /\ LoggingIdle

NextDispatch ==
    \E a \in {PathArg(p) : p \in DispatchPaths} \cup {ListArg(l) : l \in DispatchLists},
       kw \in KwargsPool : ForPath(a, kw)

SpecDispatch == InitDispatch /\ [][NextDispatch]_vars

SfInputs ==
    {Str(t) : t \in Tokens}
      \cup {Str(<<"3">>), Str(<<"3", ".", "5">>), Str(<<"a", "b", "c">>), Str(<<"2", ".", "2", "1">>)}
      \cup {NoneV, IntV(1), IntV(-10), FloatV(15, 1), FloatV(10, 1)}

SfDicts ==
    {NoDict,
     Dict([t \in {} |-> NoneV]),
     Dict([t \in {<<"a">>, <<"1">>} |-> IF t = <<"a">> THEN Str(<<"1">>) ELSE Str(<<"a">>)]),
     Dict([t \in {<<"a">>, <<"0">>} |-> IF t = <<"a">> THEN Str(<<"0">>) ELSE Str(<<"1", ".", "0">>)]),
     Dict([t \in {<<"a">>, <<"1", ".", "0">>} |-> IF t = <<"a">> THEN NoneV ELSE FloatV(15, 1)])}

InitCoerce ==
    /\ DispatchIdle
    /\ ReadIdle
    /\ OptionsIdle
    /\ LoggingIdle
    /\ sf_pc = "call"
    /\ sf_text \in SfInputs
    /\ sf_dict \in SfDicts
    /\ sf_out = SfNoResult
    /\ sf_log = 0

CallSafeFloat ==
    /\ sf_pc = "call"
    /\ LET r == safe_float(sf_text, sf_dict)
       IN /\ sf_out' = r.val
          /\ sf_log' = sf_log + r.warnings
    /\ sf_pc' = "returned"
    /\ UNCHANGED <<sf_text, sf_dict>>
    /\ UNCHANGED dispatch_vars
    /\ UNCHANGED read_vars
    /\ UNCHANGED options_vars
    /\ UNCHANGED logging_vars

NextCoerce == CallSafeFloat

SpecCoerce == InitCoerce /\ [][NextCoerce]_vars

Init == SfIdle /\ DispatchIdle /\ ReadIdle /\ OptionsIdle /\ LoggingIdle

ChooseSource ==
    \E a \in {PathArg(p) : p \in ReadPaths} \cup {ListArg(l) : l \in ReadLists},
       kw \in KwargsPool : ForPath(a, kw)

OpenRows ==
    /\ pc = "constructed"
    /\ ~reader.use_pandas
    /\ \E lines \in LinesOf(reader.cls) : ReadBeginRows(lines)

OpenPandas ==
    /\ pc = "constructed"
    /\ reader.use_pandas
    /\ \E content \in ContentsOf(reader.cls) : ReadBeginPandas(content)

Next ==
    \/ ChooseSource
    \/ OpenRows
    \/ Pass1Example
    \/ Pass1Raise
    \/ Pass1End
    \/ Pass2Example
    \/ Pass2End
    \/ OpenPandas
    \/ SubRead
    \/ Vectorize
    \/ ReadFinish

Spec == Init /\ [][Next]_vars


-----------------------------------------------------------------------------
(* Two reads of one delimited file: the caller's mapping of pandas        *)
(* options, the constructors of CSVReader and TSVReader, pd.read_csv.     *)
(* The mapping is one object: the reader keeps it as self._pandas_kwargs  *)
(* and what the constructor removes from it is removed for the caller.    *)

(* dict.pop(key, default): the value found, and the mapping left *)
Pop(d, key, default) ==
    [val |-> IF key \in DOMAIN d THEN d[key] ELSE default,
     rest |-> [o \in DOMAIN d \ {key} |-> d[o]]]

(* CSVReader.__init__ (and TSVReader.__init__ after it) on the mapping    *)
(* given as pandas_kwargs                                                 *)
CSVReader__init__(cls, given) ==
    LET sep == Pop(given, "sep", ",")
        engine == Pop(sep.rest, "engine", "c")
    IN [_sep |-> IF cls = "TSVReader" THEN "\t" ELSE sep.val,
        _engine |-> engine.val,
        _pandas_kwargs |-> engine.rest]

(* The header line and a data line of a delimited file, as text *)
RECURSIVE JoinNames(_, _)
JoinNames(names, delimiter) ==
    IF Len(names) = 1 THEN names[1]
    ELSE names[1] \o delimiter \o JoinNames(Tail(names), delimiter)

RECURSIVE JoinCells(_, _)
JoinCells(cells, delimiter) ==
    IF Len(cells) = 1 THEN text_type(cells[1])
    ELSE text_type(cells[1]) \o <<delimiter>> \o JoinCells(Tail(cells), delimiter)

(* pd.read_csv(path, sep=sep, engine=engine): the columns of the header   *)
(* when sep is the delimiter of the file, otherwise one column named by   *)
(* the whole header line whose cells are the whole lines; the engine does *)
(* not change the frame.                                                  *)
read_csv(src, sep, engine) ==
    LET N == Len(src.rows)
        cols == {src.header[c] : c \in 1..Len(src.header)}
        whole == JoinNames(src.header, src.delimiter)
    IN IF sep = src.delimiter
       THEN DataFrame(cols, [i \in 1..N |->
                [col \in cols |->
                    src.rows[i][CHOOSE c \in 1..Len(src.header) : src.header[c] = col]]])
       ELSE DataFrame({whole}, [i \in 1..N |->
                [col \in {whole} |-> Str(JoinCells(src.rows[i], src.delimiter))]])

(* What a call of read gave its caller *)
Outcome == [raised |-> pc = "raised", error |-> error, result |-> result]

(* reader = Reader.for_path(path, pandas_kwargs=pandas_kwargs, **kw) *)
Construct(path, kw) ==
    LET r == for_path(PathArg(path), kw)
        o == CSVReader__init__(r.reader.cls, pandas_kwargs)
    IN /\ arg' = PathArg(path)
       /\ kwargs' = kw
       /\ reader' = r.reader
       /\ error' = r.error
       /\ pc' = IF r.raised THEN "raised" ELSE "constructed"
       /\ pandas_kwargs' = o._pandas_kwargs
       /\ _sep' = o._sep
       /\ _engine' = o._engine

(* The caller keeps the outcome of the first read: nothing of it is left  *)
(* in the call that follows                                               *)
KeepFirst ==
    /\ round = 1
    /\ pc \in {"returned", "raised"}
    /\ first' = Outcome
    /\ round' = 2
    /\ file' = NotOpened
    /\ gen' = NewGen
    /\ ids' = <<>>
    /\ labels' = <<>>
    /\ features' = <<>>
    /\ ex_num' = 0
    /\ total' = 0
    /\ matrix' = <<>>
    /\ stderr' = <<>>
    /\ log' = 0
    /\ result' = NoResult

TablePaths == {<<"d", ".", "c", "s", "v">>, <<"d", ".", "t", "s", "v">>}

TwiceKwargs == {DefaultKwargs, [DefaultKwargs EXCEPT !.ids_to_floats = TRUE]}

Delimiters == {",", ";", "\t"}

Sources ==
    {[delimiter |-> d, header |-> h,
      rows |-> [i \in 1..Len(rows) |-> [c \in 1..Len(h) |-> rows[i][h[c]]]]] :
        d \in Delimiters, h \in {<<"id", "y", "f">>, <<"y", "f">>}, rows \in RowSeqs}

OptionsPool ==
    {NoOptions,
     [o \in {"sep"} |-> ";"],
     [o \in {"engine"} |-> "python"],
     [o \in {"sep", "engine"} |-> IF o = "sep" THEN ";" ELSE "python"]}

InitTwice ==
    /\ SfIdle
    /\ DispatchIdle
    /\ ReadIdle
    /\ source \in Sources
    /\ pandas_kwargs \in OptionsPool
    /\ _sep = ","
    /\ _engine = "c"
    /\ first = NoOutcome
    /\ round = 1
    /\ read_csv_kwargs = NoOptions
    /\ LoggingIdle

(* The first reader is constructed *)
ConstructFirst ==
    /\ pc = "start"
    /\ \E path \in TablePaths, kw \in TwiceKwargs : Construct(path, kw)
    /\ UNCHANGED <<source, first, round, read_csv_kwargs>>
    /\ UNCHANGED read_vars
    /\ UNCHANGED sf_vars
    /\ UNCHANGED logging_vars

(* read up to pd.read_csv in CSVReader._sub_read *)
OpenTable ==
    /\ pc = "constructed"
    /\ ReadBeginPandas(read_csv(source, _sep, _engine))

(* The same reader reads again *)
ReadAgain ==
    /\ KeepFirst
    /\ pc' = "constructed"
    /\ error' = NoError
    /\ UNCHANGED <<arg, kwargs, reader, source, pandas_kwargs, _sep, _engine,
                   read_csv_kwargs>>
    /\ UNCHANGED sf_vars
    /\ UNCHANGED logging_vars

(* A second reader is constructed from the same path, the same options    *)
(* and the same mapping of pandas options                                 *)
ConstructAgain ==
    /\ KeepFirst
    /\ Construct(arg.path, kwargs)
    /\ UNCHANGED <<source, read_csv_kwargs>>
    /\ UNCHANGED sf_vars
    /\ UNCHANGED logging_vars

NextTwice ==
    \/ ConstructFirst
    \/ OpenTable
    \/ SubRead
    \/ Vectorize
    \/ ReadFinish
    \/ ReadAgain
    \/ ConstructAgain

SpecTwice == InitTwice /\ [][NextTwice]_vars

-----------------------------------------------------------------------------
(* logutils: get_skll_logger and close_and_remove_logger_handlers, under  *)
(* SpecLog. A file path is a text; the empty text stands for None as     *)
(* well, both being false in "if filepath:"                               *)

MaxHandlers == 3

cwd == <<"/", "w">>

(* os.path.abspath, by which FileHandler names the file it opens: a      *)
(* relative path is joined to the working directory                      *)
abspath(path) ==
    IF path # <<>> /\ path[1] = "/" THEN path ELSE cwd \o <<"/">> \o path

(* logging.FileHandler(filepath, mode='w') with its level set: the       *)
(* stream is opened on the absolute path, which is its name              *)
FileHandler(id, filepath, log_level) ==
    [id |-> id, stream_name |-> abspath(filepath), level |-> log_level]

(* is_file_handler of get_skll_logger: the name of the handler's stream  *)
(* is compared with the path as given (every handler of the model is a   *)
(* FileHandler)                                                           *)
is_file_handler(handler, filepath) == handler.stream_name = filepath

need_file_handler(handlers, filepath) ==
    ~ \E i \in 1..Len(handlers) : is_file_handler(handlers[i], filepath)

(* get_skll_logger(name, filepath, log_level) *)
GetSkllLogger(name, filepath, log_level) ==
    /\ made < MaxHandlers
    /\ IF filepath # <<>> /\ need_file_handler(loggers[name], filepath)
       THEN /\ loggers' = [loggers EXCEPT
                   ![name] = Append(@, FileHandler(made + 1, filepath, log_level))]
            /\ made' = made + 1
       ELSE /\ loggers' = loggers
            /\ made' = made
    /\ showwarning' = name
    /\ lg_call' = [op |-> "get_skll_logger", name |-> name, filepath |-> filepath]
    /\ UNCHANGED closed
    /\ UNCHANGED sf_vars
    /\ UNCHANGED dispatch_vars
    /\ UNCHANGED read_vars
    /\ UNCHANGED options_vars

(* list.remove of the handler at position i *)
RemoveAt(handlers, i) ==
    SubSeq(handlers, 1, i - 1) \o SubSeq(handlers, i + 1, Len(handlers))

(* The loop of close_and_remove_logger_handlers: "for handler in          *)
(* logger.handlers" steps an index through the list that removeHandler    *)
(* shortens in place, so after a removal the next handler has moved to    *)
(* the position just visited                                              *)
RECURSIVE CloseLoop(_, _, _)
CloseLoop(handlers, i, done) ==
    IF i > Len(handlers)
    THEN [handlers |-> handlers, closed |-> done]
    ELSE CloseLoop(RemoveAt(handlers, i), i + 1, done \cup {handlers[i].id})

(* close_and_remove_logger_handlers(logger) *)
CloseAndRemoveLoggerHandlers(name) ==
    LET after == CloseLoop(loggers[name], 1, closed)
    IN /\ loggers' = [loggers EXCEPT ![name] = after.handlers]
       /\ closed' = after.closed
       /\ lg_call' = [op |-> "close_and_remove_logger_handlers",
                      name |-> name, filepath |-> <<>>]
       /\ UNCHANGED made
       /\ UNCHANGED showwarning
       /\ UNCHANGED sf_vars
       /\ UNCHANGED dispatch_vars
       /\ UNCHANGED read_vars
       /\ UNCHANGED options_vars

(* The file paths and levels given to get_skll_logger: none, a relative  *)
(* one, the same file by its absolute path, another file                  *)
LogPaths == {<<>>, <<"a">>, <<"/", "w", "/", "a">>, <<"/", "b">>}

LogLevels == {"INFO", "DEBUG"}

InitLog == SfIdle /\ DispatchIdle /\ ReadIdle /\ OptionsIdle /\ LoggingIdle

GetLogger ==
    \E name \in LoggerNames, filepath \in LogPaths, log_level \in LogLevels :
        GetSkllLogger(name, filepath, log_level)

CloseLogger == \E name \in LoggerNames : CloseAndRemoveLoggerHandlers(name)

NextLog ==
    \/ GetLogger
    \/ CloseLogger

SpecLog == InitLog /\ [][NextLog]_vars

-----------------------------------------------------------------------------
(* The ARFF reader and the caller's pandas options, under SpecARFF: what  *)
(* ARFFReader.__init__ takes out of the mapping and what                  *)
(* split_with_quotes passes to pd.read_csv. None is the text "None".      *)

(* ARFFReader.__init__ on the mapping given as pandas_kwargs *)
ARFFReader__init__(given) ==
    LET engine == Pop(given, "engine", "c")
        delimiter == Pop(engine.rest, "delimiter", "None")
        header == Pop(delimiter.rest, "header", "None")
        quote_char == Pop(header.rest, "quote_char", "None")
        escape_char == Pop(quote_char.rest, "escape_char", "None")
    IN [_engine |-> engine.val, _pandas_kwargs |-> escape_char.rest]

(* dict.update *)
Update(d, other) ==
    [o \in DOMAIN d \cup DOMAIN other |-> IF o \in DOMAIN other THEN other[o] ELSE d[o]]

(* The keyword arguments split_with_quotes gives pd.read_csv besides      *)
(* engine: its own four, updated with self._pandas_kwargs                 *)
split_with_quotes(self_pandas_kwargs, delimiter, header, quote_char, escape_char) ==
    Update([o \in {"header", "delimiter", "quotechar", "escapechar"} |->
               CASE o = "header" -> header
                 [] o = "delimiter" -> delimiter
                 [] o = "quotechar" -> quote_char
                 [] OTHER -> escape_char],
           self_pandas_kwargs)

(* The reader is constructed with the caller's mapping *)
ARFFConstruct ==
    /\ pc = "start"
    /\ LET r == for_path(PathArg(<<"d", ".", "a", "r", "f", "f">>), DefaultKwargs)
           o == ARFFReader__init__(pandas_kwargs)
       IN /\ arg' = PathArg(<<"d", ".", "a", "r", "f", "f">>)
          /\ kwargs' = DefaultKwargs
          /\ reader' = r.reader
          /\ error' = r.error
          /\ pc' = "constructed"
          /\ pandas_kwargs' = o._pandas_kwargs
          /\ _engine' = o._engine
    /\ UNCHANGED <<source, _sep, first, round, read_csv_kwargs>>
    /\ UNCHANGED read_vars
    /\ UNCHANGED sf_vars
    /\ UNCHANGED logging_vars

(* _sub_read parses the data block: split_with_quotes(..., delimiter=',') *)
ARFFSplitData ==
    /\ pc = "constructed"
    /\ reader.cls = "ARFFReader"
    /\ read_csv_kwargs' = split_with_quotes(pandas_kwargs, ",", "None", "'", "\\")
    /\ pc' = "data_split"
    /\ UNCHANGED <<arg, kwargs, reader, error>>
    /\ UNCHANGED <<source, pandas_kwargs, _sep, _engine, first, round>>
    /\ UNCHANGED read_vars
    /\ UNCHANGED sf_vars
    /\ UNCHANGED logging_vars

(* _sub_read parses an attribute line: split_with_quotes(row) *)
ARFFSplitRow ==
    /\ pc = "data_split"
    /\ read_csv_kwargs' = split_with_quotes(pandas_kwargs, " ", "None", "'", "\\")
    /\ pc' = "row_split"
    /\ UNCHANGED <<arg, kwargs, reader, error>>
    /\ UNCHANGED <<source, pandas_kwargs, _sep, _engine, first, round>>
    /\ UNCHANGED read_vars
    /\ UNCHANGED sf_vars
    /\ UNCHANGED logging_vars

(* The entries a caller may put in the mapping: the four names            *)
(* __init__ removes, the engine, and pandas' own names of the quote and   *)
(* the escape character                                                    *)
CallerEntries ==
    [o \in {"engine", "delimiter", "header", "quote_char", "escape_char", "quotechar",
            "escapechar"} |->
        CASE o = "engine" -> "python"
          [] o = "delimiter" -> ";"
          [] o = "header" -> "0"
          [] o \in {"quote_char", "quotechar"} -> "\""
          [] OTHER -> "/"]

ARFFOptionsPool == {[o \in keys |-> CallerEntries[o]] : keys \in SUBSET DOMAIN CallerEntries}

InitARFF ==
    /\ SfIdle
    /\ DispatchIdle
    /\ ReadIdle
    /\ source = NoSource
    /\ pandas_kwargs \in ARFFOptionsPool
    /\ _sep = ","
    /\ _engine = "c"
    /\ first = NoOutcome
    /\ round = 1
    /\ read_csv_kwargs = NoOptions
    /\ LoggingIdle

NextARFF ==
    \/ ARFFConstruct
    \/ ARFFSplitData
    \/ ARFFSplitRow

SpecARFF == InitARFF /\ [][NextARFF]_vars

-----------------------------------------------------------------------------
(* Claims about Reader.read, checked under Spec *)

ReadReturned == pc = "returned"

(* read has opened its source: every state from the start message on,    *)
(* the failures of read included (for_path fails with UnsupportedFormat   *)
(* only)                                                                  *)
Opened ==
    \/ pc \in {"pass1", "pass2", "sub_read", "vectorize", "assemble", "returned"}
    \/ pc = "raised" /\ error.kind # "UnsupportedFormat"

(* The instance lines of a MegaM file, stated on the lines themselves: a  *)
(* line that is not blank, not a comment and not one of the section marks *)
IsInstanceLine(line) ==
    /\ Len(line) > 0
    /\ line[1][1] # "#"
    /\ line \notin {<<<<"T", "R", "A", "I", "N">>>>, <<<<"T", "E", "S", "T">>>>,
                    <<<<"D", "E", "V">>>>}

(* The well-formed examples the opened source holds, in order *)
Examples ==
    CASE reader.cls = "MegaMReader" -> SelectSeq(file, IsInstanceLine)
      [] reader.cls \in {"LibSVMReader", "DictListReader"} -> file
      [] reader.cls = "ARFFReader" -> file.data
      [] OTHER -> file.rows

(* The feature names of a MegaM instance line: every second token, after  *)
(* the label when the number of tokens is odd                             *)
NamesOf(line) ==
    {line[j] : j \in {k \in 1..Len(line) : k % 2 = (IF Len(line) % 2 = 1 THEN 0 ELSE 1)}}

(* Entry i of the dataset is made of example i of the source *)
MadeOfExample(i) ==
    LET x == Examples[i]
    IN CASE reader.cls = "MegaMReader" ->
              /\ (result.labels[i] = NoneV) <=> (Len(x) % 2 = 0)
              /\ DOMAIN result.features[i] = NamesOf(x)
         [] reader.cls = "LibSVMReader" ->
              /\ Cardinality(DOMAIN result.features[i])
                   = Cardinality({x.features[j][1] : j \in 1..Len(x.features)})
              /\ (x.has_comment /\ x.example_id # <<>> /\ ~reader.ids_to_floats)
                   => result.ids[i] = Str(x.example_id)
         [] reader.cls = "ARFFReader" ->
              \A c \in 1..Len(file.attributes) :
                 file.attributes[c][1] = "f" => result.features[i]["f"] = x[c]
         [] reader.cls \in {"NDJReader", "DictListReader"} ->
              result.features[i] = x["x"]
         [] OTHER ->
              /\ result.features[i]["f"] = x["f"]
              /\ (reader.id_col \in file.cols /\ ~reader.ids_to_floats)
                   => result.ids[i] = x[reader.id_col]

(* C1: a read that returns a dataset built from N well-formed examples    *)
(* returns exactly N identifiers, N labels and N rows of the feature      *)
(* matrix, entry i of each made of example i; the three lengths of a      *)
(* returned dataset never differ.                                         *)
C1_OneEntryPerExample ==
    ReadReturned =>
        /\ Len(result.ids) = Len(Examples)
        /\ Len(result.labels) = Len(Examples)
        /\ Len(result.features) = Len(Examples)
        /\ \A i \in 1..Len(Examples) : MadeOfExample(i)

(* A MegaM file of three lines, one of them skipped, read into a dataset  *)
(* of two examples                                                        *)
C1_Witness ==
    /\ ReadReturned
    /\ reader.cls = "MegaMReader"
    /\ Len(file) = 3
    /\ Len(result.ids) = 2
    /\ Len(result.features) = 2

(* Two identifiers are the same element of set(ids): equal texts, or      *)
(* numbers of equal value                                                 *)
SharesIdentifier(a, b) ==
    \/ a = b
    \/ /\ a.k \in {"int", "float"}
       /\ b.k \in {"int", "float"}
       /\ a.n * Pow10(b.e) = b.n * Pow10(a.e)

HasSharedIdentifier(id_seq) ==
    \E i, j \in 1..Len(id_seq) : i < j /\ SharesIdentifier(id_seq[i], id_seq[j])

(* C2: read never returns a dataset in which two examples share an        *)
(* identifier; when two parsed examples have the same identifier (after   *)
(* the coercion of ids_to_floats), read fails with DuplicateId and        *)
(* returns nothing.                                                       *)
C2_NoSharedIdentifier ==
    [][/\ ReadReturned' => ~HasSharedIdentifier(result'.ids)
       /\ (pc = "assemble" /\ HasSharedIdentifier(ids))
            => (pc' = "raised" /\ error'.kind = "DuplicateId" /\ result' = NoResult)]_vars

(* Two identifiers that differ as texts and are one number: the read      *)
(* with ids_to_floats fails with DuplicateId                              *)
C2_Witness ==
    /\ pc = "raised"
    /\ error.kind = "DuplicateId"
    /\ reader.ids_to_floats
    /\ Len(ids) = 2
    /\ result = NoResult

(* The source is well-formed so far as it goes and holds no example: an   *)
(* ARFF file without its @data line is malformed, not empty               *)
SourceIsEmpty ==
    /\ Opened
    /\ reader.cls = "ARFFReader" => file.has_data
    /\ Len(Examples) = 0

(* C3: read fails with EmptyInput whenever the source holds zero          *)
(* examples (a MegaM or LibSVM file without instance lines, a table with  *)
(* zero rows, an empty list of records) and never returns a dataset.      *)
C3_EmptySourceFails ==
    SourceIsEmpty =>
        /\ pc \in {"pass1", "sub_read", "raised"}
        /\ pc = "raised" => error.kind = "EmptyInput"
        /\ result = NoResult

(* A MegaM file of two lines, neither an instance, has failed *)
C3_Witness ==
    /\ SourceIsEmpty
    /\ pc = "raised"
    /\ error.kind = "EmptyInput"
    /\ reader.cls = "MegaMReader"
    /\ Len(file) = 2

(* C4: with ids_to_floats set, no read returns a dataset containing a     *)
(* non-numeric identifier, whether the identifier comes from the source   *)
(* or is a synthetic EXAMPLE_<n>.                                         *)
C4_NoTextIdWhenCoerced ==
    (ReadReturned /\ reader.ids_to_floats) =>
        \A i \in 1..Len(result.ids) : result.ids[i].k = "float"

-----------------------------------------------------------------------------
(* Claims about safe_float, checked under SpecCoerce *)

SfReturned == sf_pc = "returned"

(* The value a text denotes when read as a decimal numeral, as a pair     *)
(* <<digits without the point, number of digits after the point>>; used   *)
(* to state the results independently of the conversion operators.        *)
ReadsAs(out, t) ==
    LET u == Unsigned(t)
        digits == SelectSeq(u, IsDigit)
        places == IF DotAt(u) = 0 THEN 0 ELSE Len(u) - DotAt(u)
    IN out.n * Pow10(places) = Sign(t) * DigitsToNat(digits) * Pow10(out.e)

(* C5: without a replacement mapping, safe_float of a text token returns  *)
(* the integer when the token is an integer numeral, otherwise the float  *)
(* when it is a decimal numeral, otherwise the token itself; there is     *)
(* always a result ("3" -> 3, "3.5" -> 3.5, "abc" -> "abc").              *)
C5_IntThenFloatThenText ==
    (SfReturned /\ sf_text.k = "str" /\ ~sf_dict.some) =>
        LET t == sf_text.s
            hasDigit == \E i \in 1..Len(t) : IsDigit(t[i])
            plain == \A i \in 1..Len(t) : IsDigit(t[i]) \/ (i = 1 /\ t[i] = "-")
            decimal == /\ \A i \in 1..Len(t) : IsDigit(t[i]) \/ t[i] = "." \/ (i = 1 /\ t[i] = "-")
                       /\ Cardinality({i \in 1..Len(t) : t[i] = "."}) <= 1
        IN /\ sf_out.k \in {"int", "float", "str"}
           /\ (hasDigit /\ plain) => (sf_out.k = "int" /\ ReadsAs(sf_out, t))
           /\ (hasDigit /\ decimal /\ ~plain) => (sf_out.k = "float" /\ ReadsAs(sf_out, t))
           /\ ~(hasDigit /\ decimal) => sf_out = Str(t)
           /\ (t = <<"3">>) => sf_out = IntV(3)
           /\ (t = <<"3", ".", "5">>) => sf_out = FloatV(35, 1)
           /\ (t = <<"a", "b", "c">>) => sf_out = Str(<<"a", "b", "c">>)
           /\ sf_log = 0

C5_Witness ==
    /\ SfReturned /\ ~sf_dict.some
    /\ sf_text = Str(<<"1", ".", "0">>)
    /\ sf_out = FloatV(1, 0)

(* C6: safe_float(None) returns the integer zero. *)
C6_NoneGivesZero == (SfReturned /\ sf_text = NoneV) => sf_out = IntV(0)

(* C7: with a class map, a token that is a key is replaced by its mapped  *)
(* text once (the result is the coercion of the mapped text, whether or   *)
(* not that text is itself a key) and nothing is logged; a token that is  *)
(* not a key is coerced as without a map and logs exactly one warning;    *)
(* without a class map nothing is logged.                                 *)
C7_ClassMapOnce ==
    (SfReturned /\ sf_text.k = "str") =>
        LET t == sf_text.s
        IN /\ (sf_dict.some /\ t \in DOMAIN sf_dict.d) =>
                 (sf_out = Coerce(sf_dict.d[t]) /\ sf_log = 0)
           /\ (sf_dict.some /\ t \notin DOMAIN sf_dict.d) =>
                 (sf_out = Coerce(Str(t)) /\ sf_log = 1)
           /\ ~sf_dict.some => (sf_out = Coerce(Str(t)) /\ sf_log = 0)

C7_Witness ==
    /\ SfReturned /\ sf_dict.some
    /\ sf_text = Str(<<"a">>)
    /\ <<"a">> \in DOMAIN sf_dict.d /\ <<"1">> \in DOMAIN sf_dict.d
    /\ sf_out = IntV(1)

-----------------------------------------------------------------------------
(* Claims about for_path, checked under SpecDispatch *)

Returned == pc \in {"constructed", "raised"}

(* The file-name extension of a path that has one: the text e after a    *)
(* '.', itself free of '.', that ends the path.                           *)
IsExtensionOf(e, p) ==
    /\ Len(e) < Len(p)
    /\ SubSeq(p, Len(p) - Len(e) + 1, Len(p)) = e
    /\ p[Len(p) - Len(e)] = "."
    /\ \A i \in 1..Len(e) : e[i] # "."

(* The parser each extension of the table stands for *)
C8_Table ==
    <<  <<<<"a", "r", "f", "f">>, "ARFFReader">>, <<<<"c", "s", "v">>, "CSVReader">>,
        <<<<"j", "s", "o", "n", "l", "i", "n", "e", "s">>, "NDJReader">>, <<<<"l", "i", "b", "s", "v", "m">>, "LibSVMReader">>,
        <<<<"m", "e", "g", "a", "m">>, "MegaMReader">>, <<<<"n", "d", "j">>, "NDJReader">>,
        <<<<"t", "s", "v">>, "TSVReader">>  >>

(* C8: for a text path with an extension, for_path returns the reader the *)
(* fixed table gives for the lowercased extension (so the case of the     *)
(* extension is irrelevant and .jsonlines and .ndj give the same parser)  *)
(* and raises UnsupportedFormat for every other extension.                *)
C8_ExtensionSelectsReader ==
    (Returned /\ arg.isstr) =>
        \A k \in 0..(Len(arg.path) - 1) :
            LET e == SubSeq(arg.path, Len(arg.path) - k + 1, Len(arg.path))
                rows == {i \in 1..Len(C8_Table) : C8_Table[i][1] = lower(e)}
            IN IsExtensionOf(e, arg.path) =>
                 /\ (rows # {}) =>
                        /\ pc = "constructed"
                        /\ \A i \in rows : reader.cls = C8_Table[i][2]
                        /\ reader.path_or_list = arg
                 /\ (rows = {}) => (pc = "raised" /\ error.kind = "UnsupportedFormat")

C8_Witness ==
    /\ pc = "constructed"
    /\ arg = PathArg(<<"a", ".", "b", "/", "d", ".", "J", "s", "o", "n", "L", "i", "n", "e", "s">>)
    /\ reader.cls = "NDJReader"

(* C9: the UnsupportedFormat error names the attempted path and every one *)
(* of the seven extensions for_path accepts.                              *)
C9_ErrorNamesAllowedSet ==
    (pc = "raised" /\ error.kind = "UnsupportedFormat") =>
        /\ error.path = arg.path
        /\ \A i \in 1..Len(C8_Table) : (<<".">> \o C8_Table[i][1]) \in error.exts

(* C10: the reader for_path returns carries the options passed to         *)
(* for_path, for a path and for an in-memory list of records.             *)
C10_ReaderCarriesOptions ==
    (pc = "constructed") =>
        /\ reader.quiet = kwargs.quiet
        /\ reader.ids_to_floats = kwargs.ids_to_floats
        /\ reader.label_col = kwargs.label_col
        /\ reader.id_col = kwargs.id_col
        /\ reader.class_map = kwargs.class_map
        /\ (reader.vectorizer.kind = "FeatureHasher") = kwargs.feature_hasher
        /\ kwargs.feature_hasher => reader.vectorizer.n_features = kwargs.num_features

-----------------------------------------------------------------------------
(* Claims about MegaMReader._sub_read, checked under Spec *)

MegaMOpened == Opened /\ reader.cls = "MegaMReader"

IsCommentLine(line) == Len(line) > 0 /\ line[1][1] = "#"

(* The text of a comment line after its '#', without surrounding blanks *)
CommentText(line) ==
    LET joined == JoinTokens(line)
    IN IF Len(joined) > 1 /\ joined[2] = " " THEN SubSeq(joined, 3, Len(joined)) ELSE Tail(joined)

(* The positions of the instance lines of the opened file, in order *)
InstancePositions == {p \in 1..Len(file) : IsInstanceLine(file[p])}

(* The identifier the k-th instance of the file must get, stated on the   *)
(* lines: the last comment between the previous instance and this one, or *)
(* EXAMPLE_<k-1>                                                          *)
NamedId(k) ==
    LET p == CHOOSE q \in InstancePositions :
                Cardinality({r \in InstancePositions : r < q}) = k - 1
        earlier == {r \in InstancePositions : r < p}
        prev == IF earlier = {} THEN 0 ELSE CHOOSE r \in earlier : \A o \in earlier : o <= r
        comments == {c \in (prev + 1)..(p - 1) : IsCommentLine(file[c])}
    IN IF comments = {}
       THEN <<"E", "X", "A", "M", "P", "L", "E", "_">> \o NatToDigits(k - 1)
       ELSE CommentText(file[CHOOSE c \in comments : \A o \in comments : o <= c])

(* C11: in a MegaM read the identifier of each instance is the text of    *)
(* the most recent comment line since the previous instance, and without  *)
(* one EXAMPLE_<k>, k the number of instances before it; a comment names  *)
(* no instance but the next.                                              *)
C11_CommentNamesNextInstance ==
    MegaMOpened =>
        \A k \in 1..Len(ids) :
            ids[k] = IF reader.ids_to_floats THEN FloatOfText(NamedId(k)) ELSE Str(NamedId(k))

(* A comment, its instance, and an instance without a comment *)
C11_Witness ==
    /\ MegaMOpened
    /\ ReadReturned
    /\ Len(file) = 3
    /\ IsCommentLine(file[1])
    /\ result.ids = <<Str(<<"a">>), Str(<<"E", "X", "A", "M", "P", "L", "E", "_", "1">>)>>

(* The k-th instance line of the opened MegaM file *)
InstanceLine(k) == SelectSeq(file, IsInstanceLine)[k]

(* The label a token gives: the class map, when there is one and it holds *)
(* the token, then the numeric coercion                                   *)
LabelOfToken(t) ==
    IF reader.class_map.some /\ t \in DOMAIN reader.class_map.d
    THEN Coerce(reader.class_map.d[t])
    ELSE Coerce(Str(t))

(* The name/value tokens of an instance line: all of them when their      *)
(* number is even, all but the first otherwise                            *)
PairTokens(line) == IF Len(line) % 2 = 0 THEN line ELSE Tail(line)

(* C12: a MegaM data line of one token gives that token as label and no   *)
(* feature; of an odd number of tokens, the first as label and the rest   *)
(* as name/value pairs; of an even number, no label and all tokens as     *)
(* pairs; the values are numerically coerced and the class map is applied *)
(* to the label only.                                                     *)
C12_TokensOfDataLine ==
    MegaMOpened =>
        /\ \A k \in 1..Len(labels) :
              labels[k] = IF Len(InstanceLine(k)) % 2 = 0 THEN NoneV
                          ELSE LabelOfToken(InstanceLine(k)[1])
        /\ \A k \in 1..Len(matrix) :
              LET pairs == PairTokens(InstanceLine(k))
              IN /\ Len(InstanceLine(k)) = 1 => DOMAIN matrix[k] = {}
                 /\ DOMAIN matrix[k] = {pairs[2 * j - 1] : j \in 1..(Len(pairs) \div 2)}
                 /\ \A j \in 1..(Len(pairs) \div 2) :
                       matrix[k][pairs[2 * j - 1]] = Coerce(Str(pairs[2 * j]))

(* A read with a class map holding "a": the label a of one line is        *)
(* replaced, the feature value a of a line of four tokens is not          *)
C12_Witness ==
    /\ MegaMOpened
    /\ ReadReturned
    /\ reader.class_map.some
    /\ Len(file) = 3
    /\ \A k \in 1..3 : Len(file[k]) = IF k = 1 THEN 3 ELSE IF k = 2 THEN 4 ELSE 1
    /\ result.labels = <<IntV(1), NoneV, IntV(0)>>
    /\ result.features[2][<<"g">>] = Str(<<"a">>)
    /\ result.features[2][<<"f">>] = FloatV(10, 1)

(* An instance line declares a feature name more than once *)
RepeatsName(line) ==
    LET pairs == PairTokens(line)
    IN \E i, j \in 1..(Len(pairs) \div 2) : i < j /\ pairs[2 * i - 1] = pairs[2 * j - 1]

(* C13: a MegaM instance that declares the same feature name more than    *)
(* once makes the read fail with DuplicateFeature (unless an identifier   *)
(* before it failed the coercion of ids_to_floats), nothing returned; no  *)
(* instance is yielded with fewer features than the line has pairs.       *)
C13_DuplicateFeatureFails ==
    MegaMOpened =>
        /\ (\E p \in InstancePositions : RepeatsName(file[p])) =>
              /\ pc \in {"pass1", "raised"}
              /\ pc = "raised" => error.kind \in {"DuplicateFeature", "InvalidId"}
              /\ (pc = "raised" /\ ~reader.ids_to_floats) => error.kind = "DuplicateFeature"
              /\ result = NoResult
        /\ \A k \in 1..Len(matrix) :
              2 * Cardinality(DOMAIN matrix[k]) = Len(PairTokens(InstanceLine(k)))

(* The second instance of a file repeats a name: the read has failed      *)
(* after the first                                                        *)
C13_Witness ==
    /\ MegaMOpened
    /\ pc = "raised"
    /\ error.kind = "DuplicateFeature"
    /\ Len(ids) = 1
    /\ \E p \in InstancePositions : RepeatsName(file[p])

-----------------------------------------------------------------------------
(* Claims about LibSVMReader._sub_read, checked under Spec *)

LibSVMOpened == Opened /\ reader.cls = "LibSVMReader"

(* The feature codes of a LibSVM line *)
CodesOf(line) == {line.features[j][1] : j \in 1..Len(line.features)}

(* C14: a LibSVM line without a trailing comment, wherever it stands,     *)
(* gets the identifier EXAMPLE_<line index>, its own code as label (class *)
(* map, numeric coercion) and its own codes as feature names; the read    *)
(* does not fail on such a line for want of a mapping.                    *)
C14_UncommentedLineUsesCodes ==
    LibSVMOpened =>
        /\ pc = "raised" => error.kind # "UnboundLocalError"
        /\ \A i \in 1..Len(labels) :
              ~file[i].has_comment =>
                  /\ labels[i] = LabelOfToken(file[i].label_num)
                  /\ ~reader.ids_to_floats =>
                        ids[i] = Str(<<"E", "X", "A", "M", "P", "L", "E", "_">>
                                         \o NatToDigits(i - 1))
        /\ \A i \in 1..Len(matrix) :
              ~file[i].has_comment => DOMAIN matrix[i] = CodesOf(file[i])

(* The name a code has in the code=name pairs of a comment: the last pair *)
(* of that code                                                           *)
NameOfCode(pairs, code) ==
    pairs[CHOOSE j \in 1..Len(pairs) :
            /\ pairs[j][1] = code
            /\ \A o \in 1..Len(pairs) : pairs[o][1] = code => o <= j][2]

(* The line's comment carries an identifier, a label name for the line's  *)
(* label code and a feature name for each of its feature codes            *)
FullyCommented(line) ==
    /\ line.matches
    /\ line.has_comment
    /\ line.example_id # <<>>
    /\ \E j \in 1..Len(line.label_map) : line.label_map[j][1] = line.label_num
    /\ \A c \in CodesOf(line) : \E j \in 1..Len(line.feat_map) : line.feat_map[j][1] = c

(* C15: for a LibSVM line whose comment carries an identifier, a mapping  *)
(* of label codes and a mapping of feature codes, the identifier is the   *)
(* comment's, the label is the name of the line's label code (then class  *)
(* map and coercion), and each feature has the name of its code and its   *)
(* value numerically coerced.                                             *)
C15_CommentedLineUsesNames ==
    LibSVMOpened =>
        /\ \A i \in 1..Len(labels) :
              FullyCommented(file[i]) =>
                  /\ ids[i] = IF reader.ids_to_floats THEN FloatOfText(file[i].example_id)
                              ELSE Str(file[i].example_id)
                  /\ labels[i] = LabelOfToken(NameOfCode(file[i].label_map, file[i].label_num))
        /\ \A i \in 1..Len(matrix) :
              FullyCommented(file[i]) =>
                  /\ DOMAIN matrix[i] = {NameOfCode(file[i].feat_map, c) : c \in CodesOf(file[i])}
                  /\ \A j \in 1..Len(file[i].features) :
                        matrix[i][NameOfCode(file[i].feat_map, file[i].features[j][1])]
                            = Coerce(Str(file[i].features[j][2]))

(* The line 1 1:0.5 2:1 # 1 | 1=a | 1=f 2=g read into a dataset *)
C15_Witness ==
    /\ LibSVMOpened
    /\ ReadReturned
    /\ FullyCommented(file[1])
    /\ Len(file[1].features) = 2
    /\ result.ids[1] = Str(<<"1">>)
    /\ result.labels[1] = Str(<<"a">>)
    /\ result.features[1][<<"f">>] = FloatV(5, 1)
    /\ result.features[1][<<"g">>] = IntV(1)

-----------------------------------------------------------------------------
(* Claims about the table-oriented parsers, checked under Spec *)

(* A table-oriented reader has parsed its table *)
TableParsed == reader.use_pandas /\ pc \in {"vectorize", "assemble", "returned"}

(* The columns (keys) of the opened table and the cell of row i in one of *)
(* them, stated on the source                                             *)
TableCols ==
    CASE reader.cls = "ARFFReader" -> {file.attributes[c][1] : c \in 1..Len(file.attributes)}
      [] reader.cls = "DictListReader" -> UNION {DOMAIN file[i] : i \in 1..Len(file)}
      [] OTHER -> file.cols

TableCell(i, col) ==
    CASE reader.cls = "ARFFReader" ->
           file.data[i][CHOOSE c \in 1..Len(file.attributes) : file.attributes[c][1] = col]
      [] reader.cls = "DictListReader" -> file[i][col]
      [] OTHER -> file.rows[i][col]

(* C16: in table-oriented ingestion, when the configured identifier       *)
(* column is present its values are the identifiers in row order and the  *)
(* column is in no feature mapping; when it is absent or configured as    *)
(* none the identifiers are EXAMPLE_0 .. EXAMPLE_<N-1>.                   *)
C16_IdentifierColumn ==
    TableParsed =>
        IF reader.id_col # NoCol /\ reader.id_col \in TableCols
        THEN \A i \in 1..Len(ids) :
                /\ ids[i] = IF reader.ids_to_floats THEN ToFloat(TableCell(i, reader.id_col))
                            ELSE TableCell(i, reader.id_col)
                /\ reader.id_col \notin DOMAIN features[i]
        ELSE \A i \in 1..Len(ids) :
                ids[i] = Str(<<"E", "X", "A", "M", "P", "L", "E", "_">> \o NatToDigits(i - 1))

(* The label a cell gives: its text through the class map, then the       *)
(* numeric coercion                                                       *)
LabelOfCell(cell) == LabelOfToken(text_type(cell))

(* The format parser supplies the feature mappings itself *)
SuppliesFeatures == reader.cls \in {"NDJReader", "DictListReader"}

(* The columns left once the identifier and label columns that are        *)
(* present are taken out                                                  *)
RemainingCols == (TableCols \ {reader.id_col}) \ {reader.label_col}

(* C17: in table-oriented ingestion, when the configured label column is  *)
(* present every label is the class-map substitution and numeric coercion *)
(* of the row's cell and the column is in no feature mapping; when it is  *)
(* absent every label is null; the remaining columns are each row's       *)
(* feature mapping unless the parser supplies the feature list.           *)
C17_LabelColumn ==
    TableParsed =>
        /\ IF reader.label_col # NoCol /\ reader.label_col \in TableCols
           THEN \A i \in 1..Len(labels) :
                   /\ labels[i] = LabelOfCell(TableCell(i, reader.label_col))
                   /\ reader.label_col \notin DOMAIN features[i]
           ELSE \A i \in 1..Len(labels) : labels[i] = NoneV
        /\ \A i \in 1..Len(features) :
              IF SuppliesFeatures THEN features[i] = TableCell(i, "x")
              ELSE features[i] = [c \in RemainingCols |-> TableCell(i, c)]

(* The identifier and the label row i must get when the columns named by  *)
(* the configuration are the ones used                                    *)
ConfiguredId(i) ==
    IF reader.id_col # NoCol /\ reader.id_col \in TableCols
    THEN (IF reader.ids_to_floats THEN ToFloat(TableCell(i, reader.id_col))
          ELSE TableCell(i, reader.id_col))
    ELSE Str(<<"E", "X", "A", "M", "P", "L", "E", "_">> \o NatToDigits(i - 1))

ConfiguredLabel(i) ==
    IF reader.label_col # NoCol /\ reader.label_col \in TableCols
    THEN LabelOfCell(TableCell(i, reader.label_col))
    ELSE NoneV

(* C18: every table-oriented parser (CSV/TSV, ARFF, newline-delimited     *)
(* records, in-memory list) takes identifiers and labels from the column  *)
(* or key the configuration names (defaults id and y); another name       *)
(* changes the column used.                                               *)
C18_ConfiguredColumnNames ==
    TableParsed =>
        \A i \in 1..Len(ids) : <<ids[i], labels[i]>> = <<ConfiguredId(i), ConfiguredLabel(i)>>

(* C19: after an ARFF read the reader's regression flag is true exactly   *)
(* when the header declares an attribute named as the configured label    *)
(* column with type numeric; it is false when that attribute has another  *)
(* type or is not declared.                                               *)
C19_RegressionFlag ==
    (TableParsed /\ reader.cls = "ARFFReader") =>
        (reader.regression <=>
            \E c \in 1..Len(file.attributes) :
                file.attributes[c] = <<reader.label_col, "numeric">>)

(* An ARFF file whose label attribute is numeric, read into a dataset *)
C19_Witness ==
    /\ ReadReturned
    /\ reader.cls = "ARFFReader"
    /\ reader.regression
    /\ \E c \in 1..Len(file.attributes) : file.attributes[c] = <<"y", "numeric">>

-----------------------------------------------------------------------------
(* Claims about repeated reads, checked under SpecTwice *)

(* C20: reading the same source twice with the same configuration gives   *)
(* the same identifiers, labels and feature mappings, for two reads of    *)
(* one reader and for two readers constructed one after the other from    *)
(* the same source, the same options and the same mapping of pandas       *)
(* options.                                                               *)
C20_SameReadTwice ==
    (round = 2 /\ pc \in {"returned", "raised"}) => Outcome = first

-----------------------------------------------------------------------------
(* Claims about the vectorizer of the dataset, checked under Spec *)

(* The options the reader's constructor received: those of the caller     *)
(* for a path, none (the defaults) for a list given to for_path           *)
ReaderConfiguration == IF arg.isstr THEN kwargs ELSE DefaultKwargs

(* C21: the dataset read returns carries the vectorizer the reader's      *)
(* configuration selects, the one of the reader that made its matrix: a   *)
(* hashing vectorizer of the configured width exactly when feature        *)
(* hashing was requested, the dictionary vectorizer otherwise.            *)
C21_DatasetCarriesVectorizer ==
    ReadReturned =>
        /\ result.vectorizer = reader.vectorizer
        /\ (result.vectorizer.kind = "FeatureHasher") <=> ReaderConfiguration.feature_hasher
        /\ (result.vectorizer.kind = "DictVectorizer") <=> ~ReaderConfiguration.feature_hasher
        /\ ReaderConfiguration.feature_hasher =>
              result.vectorizer.n_features = ReaderConfiguration.num_features

(* A dataset read with feature hashing of width 3 *)
C21_Witness ==
    /\ ReadReturned
    /\ kwargs.feature_hasher
    /\ Len(result.ids) > 0
    /\ result.vectorizer = [kind |-> "FeatureHasher", n_features |-> 3]

------------------------------------------------------------------------------
(* Claims about logutils, checked under SpecLog *)

(* The handlers attached to the logger of a name *)
Attached(name) == {loggers[name][i].id : i \in 1..Len(loggers[name])}

(* C22: a call of close_and_remove_logger_handlers leaves the logger     *)
(* without handlers, and every handler that was attached to it when the  *)
(* call began is closed, however many there were                          *)
C22_CloseLeavesNoHandler ==
    [][\A name \in LoggerNames :
          CloseAndRemoveLoggerHandlers(name) =>
              /\ loggers'[name] = <<>>
              /\ Attached(name) \subseteq closed']_vars

(* The handlers of the logger of a name that write to a file *)
HandlersOf(name, file_name) ==
    {i \in 1..Len(loggers[name]) : loggers[name][i].stream_name = file_name}

(* C23: the logger of a name has at most one file handler for a file:    *)
(* no call of get_skll_logger adds a second one                           *)
C23_OneFileHandlerPerPath ==
    \A name \in LoggerNames :
        \A i \in 1..Len(loggers[name]) :
            Cardinality(HandlersOf(name, loggers[name][i].stream_name)) = 1

------------------------------------------------------------------------------
(* Claims about the two passes and the progress output of Reader.read,   *)
(* checked under Spec                                                     *)

(* The read is a streaming one and its second pass has begun *)
Streaming == Opened /\ ~reader.use_pandas

InPassTwo == Streaming /\ pc \in {"pass2", "assemble", "returned"}

(* What one run of the reader's generator over the lines yields, in      *)
(* order, up to its end or its first exception                            *)
RECURSIVE YieldsFrom(_, _, _)
YieldsFrom(rd, lines, g) ==
    LET r == sub_read_next(rd, lines, g)
    IN IF r.kind = "yield" THEN <<r>> \o YieldsFrom(rd, lines, r.g) ELSE <<>>

(* The identifier as the first pass keeps it *)
KeptId(rd, id) == IF rd.ids_to_floats THEN FloatOfText(id) ELSE Str(id)

(* C24: in a streaming read the second pass yields as many feature       *)
(* mappings as the first pass counted examples, in the same order: row i *)
(* of the matrix is the mapping of the example whose identifier and      *)
(* label stand at position i. The first pass is complete (identifiers,   *)
(* labels and total known, and no longer changing) before the first      *)
(* mapping is produced.                                                   *)
C24_PassTwoFollowsPassOne ==
    /\ [](InPassTwo =>
            LET ys == YieldsFrom(reader, file, NewGen)
            IN /\ total = Len(ys)
               /\ Len(ids) = total
               /\ Len(labels) = total
               /\ Len(matrix) <= total
               /\ pc \in {"assemble", "returned"} => Len(matrix) = total
               /\ \A i \in 1..Len(matrix) :
                     /\ matrix[i] = ys[i].feats
                     /\ ids[i] = KeptId(reader, ys[i].id)
                     /\ labels[i] = ys[i].label)
    /\ []((Streaming /\ pc = "pass1") => matrix = <<>>)
    /\ [][(Streaming' /\ matrix' # matrix) =>
             /\ pc = "pass2"
             /\ total = Len(ids)
             /\ <<ids, labels, total>>' = <<ids, labels, total>>]_vars

(* A streaming read of two examples with different feature mappings has  *)
(* returned                                                               *)
C24_Witness ==
    /\ ReadReturned
    /\ Streaming
    /\ total = 2
    /\ Len(matrix) = 2
    /\ matrix[1] # matrix[2]
    /\ ids[1] # ids[2]

(* C25: with quiet set, no step of read writes progress output: neither  *)
(* the start message, nor the counts of the first pass, nor the          *)
(* percentages of the second, nor the completion message, whether the    *)
(* read returns or fails, row by row or through pandas                    *)
C25_QuietWritesNothing ==
    (Opened /\ reader.quiet) => stderr = <<>>

(* A quiet streaming read has gone through both passes and returned *)
C25_Witness ==
    /\ ReadReturned
    /\ Streaming
    /\ reader.quiet
    /\ Len(matrix) = 2
    /\ stderr = <<>>

(* The fatal errors of obtaining a dataset *)
FatalErrors ==
    {"UnsupportedFormat", "EmptyInput", "InvalidId", "DuplicateId", "DuplicateFeature",
     "MalformedLine"}

(* C26: every fatal error aborts the read with nothing returned, and its *)
(* message names the offending source path or the offending line,        *)
(* row by row and through pandas alike                                    *)
C26_FatalErrorNamesSource ==
    (pc = "raised" /\ error.kind \in FatalErrors) =>
        /\ result = NoResult
        /\ error.mentions \cap {"source", "line"} # {}

(* C27, checked under SpecARFF: whatever the caller's mapping of pandas  *)
(* options holds, the delimiter, the header setting, the quote character *)
(* and the escape character the ARFF reader passes to pd.read_csv are    *)
(* its own, for the data block and for an attribute line                  *)
C27_ParserSettingsAreTheReaders ==
    pc \in {"data_split", "row_split"} =>
        /\ read_csv_kwargs["delimiter"] = (IF pc = "data_split" THEN "," ELSE " ")
        /\ read_csv_kwargs["header"] = "None"
        /\ read_csv_kwargs["quotechar"] = "'"
        /\ read_csv_kwargs["escapechar"] = "\\"

------------------------------------------------------------------------------
(* C28, checked under Spec *)

(* A line _sub_read passes over: a blank one or a section mark *)
IsSkippedLine(line) == Len(line) = 0 \/ line \in ReservedLines

(* The position of the k-th instance line of the opened file, and of the *)
(* instance line before it (0 when it is the first)                       *)
InstancePosition(k) ==
    CHOOSE q \in InstancePositions : Cardinality({r \in InstancePositions : r < q}) = k - 1

PreviousInstancePosition(k) == IF k = 1 THEN 0 ELSE InstancePosition(k - 1)

(* Between the previous instance and the k-th one a line is passed over *)
SkippedBefore(k) ==
    \E r \in (PreviousInstancePosition(k) + 1)..(InstancePosition(k) - 1) :
        IsSkippedLine(file[r])

(* C28: in a MegaM read blank lines and the lines TRAIN, TEST and DEV    *)
(* yield no instance (there are as many identifiers as instance lines),  *)
(* do not advance the index of the synthetic identifiers and do not      *)
(* discard the identifier a comment before them has set: an instance     *)
(* that follows such lines gets the identifier it would get without them *)
C28_SkippedLinesLeaveNoTrace ==
    MegaMOpened =>
        /\ Len(ids) <= Cardinality(InstancePositions)
        /\ pc \in {"pass2", "assemble", "returned"} => Len(ids) = Cardinality(InstancePositions)
        /\ \A k \in 1..Len(ids) :
              SkippedBefore(k) => ids[k] = KeptId(reader, NamedId(k))

(* A comment, a line passed over and the instance the comment names; and *)
(* an instance, a line passed over and an instance without a comment     *)
C28_Witness ==
    /\ MegaMOpened
    /\ ReadReturned
    /\ Len(file) = 3
    /\ IsSkippedLine(file[2])
    /\ \/ IsCommentLine(file[1]) /\ result.ids = <<Str(<<"a">>)>>
       \/ /\ IsInstanceLine(file[1])
          /\ Len(result.ids) = 2
          /\ result.ids[2] = Str(EXAMPLE_(1))

------------------------------------------------------------------------------
(* C29, checked under Spec *)

Written(msg) == \E i \in 1..Len(stderr) : stderr[i] = msg

(* C29: the completion message is written only by a read that returns a *)
(* dataset: a read that is not quiet and fails has written the start     *)
(* message and never the completion message                               *)
C29_DoneOnlyWhenReturned ==
    /\ Written("done") => ReadReturned
    /\ (pc = "raised" /\ Opened /\ ~reader.quiet) => (Written("Loading") /\ ~Written("done"))

------------------------------------------------------------------------------
(* C30, checked under SpecDispatch *)

HasDot(path) == \E i \in 1..Len(path) : path[i] = "."

====
